---------------------------- MODULE Spec2Model ----------------------------
(***************************************************************************)
(* Camera-session lifecycle of puhe-kaveri-app: the CameraPanel component, *)
(* the useCamera hook with the useCameraVoiceFlow flow built on it, and    *)
(* the useModernCamera hook with its ModernCameraApp consumer.             *)
(*                                                                         *)
(* One behaviour follows ONE mounted component instance (comp); the three  *)
(* share no state in the program.  An action is one handler call, or one   *)
(* continuation of an async function after an await, or one environment    *)
(* event (a getUserMedia answer, a DOM event, a timer).  JavaScript runs   *)
(* each of them to completion, so each is atomic.                          *)
(***************************************************************************)
EXTENDS Integers, Sequences, FiniteSets, Bags, TLC

\* ------------------------------------------------------------- bounds
\* Streams getUserMedia may hand out in one behaviour; an open is started
\* only while a stream is left for it (see CanStartOpen).
MaxStreams == 2

\* Photos one behaviour may encode.
MaxBlobs == 1

\* ---------------------------------------------------------- constants
Components == {"CameraPanel", "useCamera", "useModernCamera"}

\* DOMException names getUserMedia rejects with.
ErrorNames ==
  {"NotAllowedError", "NotFoundError", "NotReadableError",
   "OverconstrainedError", "SecurityError"}

\* The names drawn for a rejection that is not the last of a constraint loop:
\* the loops only tell NotReadableError (a pause follows) from the others.
EarlyErrors == {"NotAllowedError", "NotReadableError"}

\* The constraint list of useCamera.open, in the order of the array.
OpenConstraints ==
  <<"environment-1080p", "environment-720p", "user-720p", "environment", "any">>

\* The numbers of video input devices enumerateDevices reports.
DeviceCounts == {0, 2}

\* The names typed into FilenameInput (trimmed and non-empty when submitted).
FileNames == {"site-42"}

\* The values of the textResponse field in the webhook's answers.
Texts == {"ok", ""}

\* What the webhook answers: the status class, whether the content-type
\* header includes application/json, and the body: empty, not parseable, or
\* a JSON object with or without the textResponse / audioResponse fields.
Response(ok, json, body, hasText, text, audio) ==
  [ok |-> ok, json |-> json, body |-> body,
   hasText |-> hasText, text |-> text, audio |-> audio]

Responses ==
  {Response(FALSE, FALSE, "empty", FALSE, "", FALSE),
   Response(TRUE, FALSE, "garbage", FALSE, "", FALSE),
   Response(TRUE, TRUE, "empty", FALSE, "", FALSE),
   Response(TRUE, TRUE, "garbage", FALSE, "", FALSE)}
  \cup {Response(TRUE, TRUE, "object", FALSE, "", audio) : audio \in BOOLEAN}
  \cup {Response(TRUE, TRUE, "object", TRUE, text, audio) :
          text \in Texts, audio \in BOOLEAN}

\* The text of a body that is not JSON, as response.text() returns it.
RawText == "<html>"

\* capturePhoto emits a canvas at least this wide.
MinOutputWidth == 1080

\* video.videoWidth and video.videoHeight of the frames capturePhoto crops.
FrameWidths == {640, 1280, 1920}
FrameHeights == {480, 720, 1080}

\* video.clientWidth and video.clientHeight of the display boxes.
DisplayWidths == {360, 412, 1280}
DisplayHeights == {270, 640, 915}

VARIABLES
  comp,        \* the component instance this behaviour follows
  mounted,     \* the component is mounted (no unmount cleanup has run)
  lastOp,      \* the handler, continuation or event that ran last
  nStreams,    \* streams handed out so far; they are numbered 1..nStreams
  live,        \* the streams whose tracks have not been stopped
  streamRef,   \* streamRef.current (0: null)
  videoSrc,    \* videoRef.current.srcObject (0: null or no element)
  metaArmed,   \* the video element still owes its media events for videoSrc
  calls,       \* the async open/startCamera calls in flight
  isOpen,      \* useCamera: isOpen
  state,       \* CameraPanel: state
  error,       \* CameraPanel: error; useModernCamera: error ("none": null)
  facingMode,  \* CameraPanel: facingMode
  availableDevices,  \* CameraPanel: availableDevices.length
  openWatchdogRef,   \* CameraPanel: openWatchdogRef.current is a pending timer
  enumerating, \* CameraPanel: an initializeDevices call awaits enumerateDevices
  isActiveProp,      \* CameraPanel: the isActive prop
  hidden,      \* document.hidden
  capturedBlob,      \* CameraPanel, ModernCameraApp: capturedBlob (0: null)
  isActive,    \* useModernCamera: isActive
  appIsOpen,   \* ModernCameraApp: isOpen
  step,        \* useCameraVoiceFlow: state.step
  photoBlob,   \* useCameraVoiceFlow: state.photoBlob (0: null)
  fileName,    \* useCameraVoiceFlow: state.fileName
  conversation,      \* the conversation argument of useCameraVoiceFlow
  messages,    \* the assistant messages pushed to conversation.messages
  nBlobs,      \* blobs encoded so far; they are numbered 1..nBlobs
  encodes,     \* canvas.toBlob callbacks of useCamera.capture still owed
  emptyEncodes,      \* those of them whose canvas was 0 pixels wide or high
  uploads,     \* the processPhotoWithFilename calls in flight
  pendingPhoto,      \* CameraVoiceFlow: pendingPhoto (0: null)
  showFilenameInput, \* the component's showFilenameInput
  objectUrls,  \* the blobs whose object URL was created and not revoked
  crop,        \* the frame a capturePhoto call crops, and its result
  audio,       \* the audioResponse of one webhook answer, and the URLs made of it
  shot,        \* the inputs of one useCamera.capture call, and its canvas
  form,        \* FilenameInput: the typed text, and what handleSubmit called
  cacheStorage,      \* sw.js: the caches of the origin, by name, and their keys
  worker,      \* sw.js: the life cycle of the worker and its activate handler
  handling     \* sw.js: the fetch event being handled

streamVars == <<nStreams, live, streamRef, videoSrc, metaArmed, calls>>
camVars == <<isOpen>>
panelVars ==
  <<state, error, facingMode, availableDevices, openWatchdogRef, enumerating,
    isActiveProp, hidden, capturedBlob>>
modernVars == <<isActive, appIsOpen>>
flowState == <<step, photoBlob, fileName>>
flowIO == <<conversation, messages, nBlobs, encodes, uploads>>
dialogVars == <<pendingPhoto, showFilenameInput>>
flowVars == <<flowState, flowIO, dialogVars>>
pureVars == <<audio, shot, form>>
swVars == <<cacheStorage, worker, handling>>
vars ==
  <<comp, mounted, lastOp, streamVars, camVars, panelVars, modernVars, flowVars,
    objectUrls, crop, emptyEncodes, pureVars, swVars>>

\* ------------------------------------------------------------ helpers
\* One async open call in flight.
\*   pc        delay   pausing before its first getUserMedia request
\*             gum     inside its constraint loop, a request pending
\*             wait    stream attached, waiting for the video to get ready
\*             settled returned or thrown, its timer still pending
\*   attempts  the constraint list the call iterates over
\*   stream    the stream its loop obtained (0: none)
\*   closIsOpen  isOpen as captured by the closure of the call
\*   timer     the call's setTimeout is pending
NewCall(attempts) ==
  [pc |-> "gum", attempts |-> attempts, stream |-> 0,
   closIsOpen |-> FALSE, timer |-> FALSE]

\* The calls are kept as a bag: two calls in the same state are interchangeable.
Calls == BagToSet(calls)

Without(call) == calls (-) SetToBag({call})

Replace(call, new) == Without(call) (+) SetToBag({new})

\* A call that returned or threw: gone, unless its timer is still pending.
Settled(call) ==
  IF call.timer THEN SetToBag({[call EXCEPT !.pc = "settled"]}) ELSE EmptyBag

RECURSIVE SettleWaiting(_)
\* Every call waiting for the video settles; the others stay.
SettleWaiting(S) ==
  IF S = {} THEN EmptyBag
  ELSE LET r == CHOOSE x \in S : TRUE
           one == IF r.pc = "wait" THEN Settled(r) ELSE SetToBag({r})
           RECURSIVE Times(_)
           Times(k) == IF k = 0 THEN EmptyBag ELSE one (+) Times(k - 1)
       IN Times(CopiesIn(r, calls)) (+) SettleWaiting(S \ {r})

RECURSIVE CountCopies(_)
\* The number of calls in the bag that are among S.
CountCopies(S) ==
  IF S = {} THEN 0
  ELSE LET r == CHOOSE x \in S : TRUE
       IN CopiesIn(r, calls) + CountCopies(S \ {r})

\* The calls that have not been answered by getUserMedia yet.
PendingCalls == CountCopies({call \in Calls : call.pc \in {"delay", "gum"}})

\* The bound on opens: every open in flight can still be handed a stream.
CanStartOpen == nStreams + PendingCalls < MaxStreams

\* What getUserMedia would answer to each constraint of a list of n, asked or
\* not: rejections under one common name up to position k, there "ok" (or,
\* at the end of the list, one more rejection under any name), and "ok" for
\* every constraint after k.
Answers(n) ==
  UNION { { [i \in 1..n |-> IF i < k THEN e ELSE IF i = k THEN z ELSE "ok"] :
              z \in IF k = n THEN ErrorNames \cup {"ok"} ELSE {"ok"} } :
          e \in EarlyErrors, k \in 1..n }

Answers4 == Answers(4)

Answers5 == Answers(5)

AnswersFor(attempts) == IF Len(attempts) = 4 THEN Answers4 ELSE Answers5

\* A faulty loop that asks for the last constraint only; C3 must tell it
\* from the loop of the code.
TryOnlyLast(attempts, answers, i, log, lastErr) ==
  LET n == Len(attempts)
  IN [ok |-> answers[n] = "ok", at |-> IF answers[n] = "ok" THEN n ELSE 0,
      log |-> <<attempts[n]>>,
      lastErr |-> IF answers[n] = "ok" THEN "none" ELSE answers[n]]

RECURSIVE TryNext(_, _, _, _, _)
\* The constraint loops (for ... of attempts { try { return/break on success }
\* catch (e) { lastErr = e } }), from iteration i on, with the requests logged
\* and the error caught so far.
TryNext(attempts, answers, i, log, lastErr) ==
  IF i > Len(attempts)
    THEN [ok |-> FALSE, at |-> 0, log |-> log, lastErr |-> lastErr]
    ELSE IF answers[i] = "ok"
      THEN [ok |-> TRUE, at |-> i, log |-> Append(log, attempts[i]), lastErr |-> lastErr]
      ELSE TryNext(attempts, answers, i + 1, Append(log, attempts[i]), answers[i])

\* The whole loop: which constraints were requested, in which order, which
\* request succeeded and, if none did, the error of the last one.
TryConstraints(attempts, answers) == TryNext(attempts, answers, 1, <<>>, "none")

\* What an open reports when its loop has ended or its wait has failed.
OpenResult(call, answers, r, err, stream) ==
  [attempts |-> call.attempts, answers |-> answers, log |-> r.log,
   at |-> r.at, err |-> err, stream |-> stream]

NoLoop == [log |-> <<>>, at |-> 0]

\* streamRef.current.getTracks().forEach(track => track.stop())
StopTracks(l, s) == IF s = 0 THEN l ELSE l \ {s}

\* A React state setter: ignored once the component has unmounted.
SetState(old, new) == IF mounted THEN new ELSE old

Op(name, arg) == [name |-> name, arg |-> arg]

\* A faulty close that stops the tracks but leaves isOpen as it is; C29 must
\* tell it from close() of the code.
CamCloseKeepsReady ==
  /\ live' = StopTracks(live, streamRef)
  /\ streamRef' = 0
  /\ videoSrc' = 0
  /\ metaArmed' = FALSE
  /\ isOpen' = isOpen

\* ------------------------------------------------------------ useCamera
\* useCamera.close
CamClose ==
  /\ live' = StopTracks(live, streamRef)
  /\ streamRef' = 0
  /\ videoSrc' = 0
  /\ metaArmed' = FALSE
  /\ isOpen' = SetState(isOpen, FALSE)

\* A faulty catch path that keeps the stream and the flow's step; C9 must
\* tell it from the catch blocks of the code.
OpenFailedKeepsSession(call, result) ==
  /\ UNCHANGED <<live, streamRef, isOpen, step>>
  /\ calls' = Without(call)
  /\ lastOp' = Op("open.rejected", result)

\* The catch block of useCamera.open followed by the catch block of
\* useCameraVoiceFlow.startFlow, which the rethrown error reaches.
OpenFailed(call, result) ==
  /\ live' = StopTracks(live, streamRef)
  /\ streamRef' = 0
  /\ isOpen' = SetState(isOpen, FALSE)
  /\ step' = SetState(step, "idle")
  /\ calls' = Without(call)
  /\ lastOp' = Op("open.rejected", result)

\* useCameraVoiceFlow.startFlow up to the first await inside useCamera.open.
\* The button that calls it is rendered in step 'idle'.
startFlow ==
  /\ comp = "useCamera" /\ mounted
  /\ step = "idle" /\ ~showFilenameInput
  /\ CanStartOpen
  /\ LET fresh == [NewCall(OpenConstraints) EXCEPT !.closIsOpen = isOpen]
     IN IF streamRef # 0
          THEN /\ live' = StopTracks(live, streamRef)
               /\ streamRef' = 0
               /\ isOpen' = FALSE
               /\ calls' = calls (+) SetToBag({[fresh EXCEPT !.pc = "delay"]})
          ELSE /\ calls' = calls (+) SetToBag({fresh})
               /\ UNCHANGED <<live, streamRef, isOpen>>
  /\ step' = "camera"
  /\ lastOp' = Op("startFlow", "")
  /\ UNCHANGED <<comp, pureVars, swVars, crop, emptyEncodes, objectUrls, panelVars, modernVars, mounted, nStreams, videoSrc, metaArmed,
                 photoBlob, fileName, flowIO, dialogVars>>

\* useCamera.open after its 500 ms pause: the constraint loop starts.
OpenDelayDone(call) ==
  /\ comp = "useCamera"
  /\ call.pc = "delay"
  /\ calls' = Replace(call, [call EXCEPT !.pc = "gum"])
  /\ lastOp' = Op("open.delayDone", "")
  /\ UNCHANGED <<comp, pureVars, swVars, crop, emptyEncodes, objectUrls, panelVars, modernVars, mounted, nStreams, live, streamRef, videoSrc,
                 metaArmed, camVars, flowVars>>

\* The constraint loop of useCamera.open runs to its end on the answers
\* getUserMedia gives.  On success the stream is stored and, with a video
\* element, the call waits for loadedmetadata under a 10 s timer; otherwise
\* the last error is thrown.  (The requests of the loop touch nothing but the
\* call's own locals, so the loop is one step, taken when it ends.)
OpenAcquire(call, answers) ==
  /\ comp = "useCamera"
  /\ call.pc = "gum"
  /\ LET r == TryConstraints(call.attempts, answers)
         s == nStreams + 1
     IN IF r.ok
          THEN /\ nStreams' = s
               /\ live' = live \cup {s}
               /\ streamRef' = s
               /\ IF mounted
                    THEN /\ videoSrc' = s
                         /\ metaArmed' = TRUE
                         /\ calls' = Replace(call,
                               [call EXCEPT !.pc = "wait", !.stream = s, !.timer = TRUE])
                    ELSE /\ calls' = Without(call)
                         /\ UNCHANGED <<videoSrc, metaArmed>>
               /\ lastOp' = Op("open.acquired", OpenResult(call, answers, r, "none", s))
               /\ UNCHANGED <<isOpen, step>>
          ELSE /\ OpenFailed(call, OpenResult(call, answers, r, r.lastErr, 0))
               /\ UNCHANGED <<nStreams, videoSrc, metaArmed>>
  /\ UNCHANGED <<comp, pureVars, swVars, crop, emptyEncodes, objectUrls, panelVars, modernVars, mounted, photoBlob, fileName, flowIO, dialogVars>>

\* The video element fires loadedmetadata: the onLoadedMetadata listener of
\* every call still waiting runs (they all sit on the one element).
CamLoadedMetadata ==
  /\ comp = "useCamera"
  /\ metaArmed /\ videoSrc \in live
  /\ metaArmed' = FALSE
  /\ IF \E call \in Calls : call.pc = "wait"
       THEN isOpen' = SetState(isOpen, TRUE)
       ELSE isOpen' = isOpen
  /\ calls' = SettleWaiting(Calls)
  /\ lastOp' = Op("loadedmetadata", "")
  /\ UNCHANGED <<comp, pureVars, swVars, crop, emptyEncodes, objectUrls, panelVars, modernVars, mounted, nStreams, live, streamRef, videoSrc, flowVars>>

\* The video element fires error: the onError listener of every call still
\* waiting rejects its promise, and each call runs its catch block.
CamVideoError ==
  /\ comp = "useCamera"
  /\ metaArmed /\ videoSrc # 0
  /\ \E call \in Calls : call.pc = "wait"
  /\ metaArmed' = FALSE
  /\ live' = StopTracks(live, streamRef)
  /\ streamRef' = 0
  /\ isOpen' = SetState(isOpen, FALSE)
  /\ step' = SetState(step, "idle")
  /\ calls' = SettleWaiting(Calls)
  /\ lastOp' = Op("open.rejected",
                  OpenResult(CHOOSE call \in Calls : call.pc = "wait",
                             <<>>, NoLoop, "videoError", 0))
  /\ UNCHANGED <<comp, pureVars, swVars, crop, emptyEncodes, objectUrls, panelVars, modernVars, mounted, nStreams, videoSrc,
                 photoBlob, fileName, flowIO, dialogVars>>

\* A faulty timer that fails the open even after its promise was settled;
\* C24 must tell it from the timer of the code.
OpenTimeoutAlwaysFails(call) ==
  /\ comp = "useCamera"
  /\ call.timer
  /\ OpenFailed(call, OpenResult(call, <<>>, NoLoop, "timeout", 0))
  /\ UNCHANGED <<comp, pureVars, swVars, crop, emptyEncodes, objectUrls, panelVars, modernVars, mounted,
                 nStreams, videoSrc, metaArmed, photoBlob, fileName, flowIO, dialogVars>>

\* The 10 s timer of a useCamera.open call fires: with the closure's isOpen
\* false it removes the listeners and rejects the (possibly settled) promise.
OpenTimeout(call) ==
  /\ comp = "useCamera"
  /\ call.timer
  /\ IF call.pc = "wait" /\ ~call.closIsOpen
       THEN OpenFailed(call, OpenResult(call, <<>>, NoLoop, "timeout", 0))
       ELSE /\ calls' = IF call.pc = "settled" THEN Without(call)
                        ELSE Replace(call, [call EXCEPT !.timer = FALSE])
            /\ lastOp' = Op("open.timeoutNoEffect", "")
            /\ UNCHANGED <<live, streamRef, isOpen, step>>
  /\ UNCHANGED <<comp, pureVars, swVars, crop, emptyEncodes, objectUrls, panelVars, modernVars, mounted, nStreams, videoSrc, metaArmed,
                 photoBlob, fileName, flowIO, dialogVars>>

\* The body of useCameraVoiceFlow.resetFlow.
ResetFlow ==
  /\ step' = SetState(step, "idle")
  /\ photoBlob' = SetState(photoBlob, 0)
  /\ fileName' = SetState(fileName, "")
  /\ CamClose

\* The reset button, rendered outside step 'idle' while the filename form is
\* not shown.
resetFlow ==
  /\ comp = "useCamera" /\ mounted
  /\ step # "idle" /\ ~showFilenameInput
  /\ ResetFlow
  /\ lastOp' = Op("resetFlow", "")
  /\ UNCHANGED <<comp, pureVars, swVars, crop, emptyEncodes, objectUrls, panelVars, modernVars, mounted, nStreams, calls, flowIO, dialogVars>>

\* The unmount cleanup of useCamera: the held stream's tracks are stopped.
CamUnmount ==
  /\ comp = "useCamera" /\ mounted
  /\ mounted' = FALSE
  /\ live' = StopTracks(live, streamRef)
  /\ videoSrc' = 0
  /\ metaArmed' = FALSE
  /\ lastOp' = Op("unmount", "")
  /\ UNCHANGED <<comp, pureVars, swVars, crop, emptyEncodes, objectUrls, panelVars, modernVars, nStreams, streamRef, calls, camVars, flowVars>>

\* ------------------------------------------------- useCameraVoiceFlow
\* addMessage: pushes only onto a conversation that has a messages array.
\* (Only the assistant messages are kept in the model.)
AddMessage(msgs, content) ==
  IF conversation = "messages" THEN Append(msgs, content) ELSE msgs

\* A faulty capture that skips the isOpen test; C6 must tell it from the
\* capture of the code.
CaptureWithoutReadyTest(hasContext) ==
  /\ comp = "useCamera" /\ mounted
  /\ step = "camera" /\ ~showFilenameInput
  /\ nBlobs + encodes < MaxBlobs
  /\ lastOp' = Op("capture.started", "")
  /\ encodes' = encodes + 1
  /\ UNCHANGED <<comp, pureVars, swVars, crop, emptyEncodes, objectUrls, panelVars, modernVars, mounted, streamVars, camVars,
                 flowState, conversation, messages, nBlobs, uploads, dialogVars>>

\* video.videoWidth and video.videoHeight are 0: the element has no source,
\* or has not loaded the metadata of the source it was given last.
VideoHasNoFrame == videoSrc = 0 \/ metaArmed

\* CameraVoiceFlow.handlePhotoCapture up to the toBlob call of
\* useCamera.capture; the capture button is rendered in step 'camera'.
\* A rejected capture runs the catch block of capturePhoto.  The canvas
\* takes the dimensions of the video, whatever they are.
handlePhotoCapture(hasContext) ==
  /\ comp = "useCamera" /\ mounted
  /\ step = "camera" /\ ~showFilenameInput
  /\ nBlobs + encodes < MaxBlobs
  /\ IF ~isOpen
       THEN /\ lastOp' = Op("capture.rejected", "Camera not ready")
            /\ step' = "camera"
            /\ UNCHANGED <<encodes, emptyEncodes>>
       ELSE IF ~hasContext
         THEN /\ lastOp' = Op("capture.rejected", "Canvas context not available")
              /\ step' = "camera"
              /\ UNCHANGED <<encodes, emptyEncodes>>
         ELSE /\ lastOp' = Op("capture.started", "")
              /\ encodes' = encodes + 1
              /\ emptyEncodes' = emptyEncodes + (IF VideoHasNoFrame THEN 1 ELSE 0)
              /\ UNCHANGED step
  /\ UNCHANGED <<comp, pureVars, swVars, crop, objectUrls, panelVars, modernVars, mounted, streamVars, camVars, photoBlob, fileName,
                 conversation, messages, nBlobs, uploads, dialogVars>>

\* The toBlob callback of useCamera.capture and what awaits it: capturePhoto
\* stores the blob and closes the camera, handlePhotoCapture shows the
\* filename form; a null blob rejects.  A canvas without pixels encodes to
\* a null blob.
CaptureEncoded(hasBlob) ==
  /\ comp = "useCamera"
  /\ encodes > 0
  /\ encodes' = encodes - 1
  /\ \E empty \in BOOLEAN :
       /\ IF empty THEN emptyEncodes > 0 /\ ~hasBlob ELSE encodes > emptyEncodes
       /\ emptyEncodes' = IF empty THEN emptyEncodes - 1 ELSE emptyEncodes
  /\ IF hasBlob
       THEN /\ nBlobs' = nBlobs + 1
            /\ step' = SetState(step, "captured")
            /\ photoBlob' = SetState(photoBlob, nBlobs + 1)
            /\ CamClose
            /\ pendingPhoto' = SetState(pendingPhoto, nBlobs + 1)
            /\ showFilenameInput' = SetState(showFilenameInput, TRUE)
            /\ objectUrls' = objectUrls \cup {nBlobs + 1}
            /\ lastOp' = Op("capture.resolved", nBlobs + 1)
       ELSE /\ step' = SetState(step, "camera")
            /\ lastOp' = Op("capture.rejected", "Failed to create blob from canvas")
            /\ UNCHANGED <<nBlobs, photoBlob, live, streamRef, videoSrc,
                           metaArmed, isOpen, dialogVars, objectUrls>>
  /\ UNCHANGED <<comp, pureVars, swVars, crop, panelVars, modernVars, mounted, nStreams, calls, fileName,
                 conversation, messages, uploads>>

\* A faulty hand-off that also posts the photo while offline; C11 must tell
\* it from the hand-off of the code.
NewUploadAlwaysPosts(blob, name, isOnline) ==
  [pc |-> IF isOnline THEN "fetch" ELSE "saving",
   blob |-> blob, name |-> name,
   sent |-> <<[file |-> blob, fileLabel |-> name \o ".jpg",
               filename |-> name \o ".jpg"]>>,
   saved |-> IF isOnline THEN <<>>
             ELSE <<[blob |-> blob, fileName |-> name, wantAudio |-> FALSE]>>]

\* One processPhotoWithFilename call in flight.
\*   pc     saving   awaiting offlineStorage.saveOffline
\*          fetch    awaiting the POST and the body of its response
\*          playing  awaiting playAudioResponse
\*   sent   the POST requests the call has issued
\*   saved  the saveOffline calls the call has made
NewUpload(blob, name, isOnline) ==
  [pc |-> IF isOnline THEN "fetch" ELSE "saving",
   blob |-> blob, name |-> name,
   sent |-> IF isOnline
              THEN <<[file |-> blob, fileLabel |-> name \o ".jpg",
                      filename |-> name \o ".jpg"]>>
              ELSE <<>>,
   saved |-> IF isOnline THEN <<>>
             ELSE <<[blob |-> blob, fileName |-> name, wantAudio |-> FALSE]>>]

\* CameraVoiceFlow.handleFilenameSubmit, called by FilenameInput with the
\* trimmed name, up to the first await of processPhotoWithFilename; online
\* is what navigator.onLine reads at that moment.
handleFilenameSubmit(name, online) ==
  /\ comp = "useCamera" /\ mounted
  /\ showFilenameInput
  /\ IF pendingPhoto # 0
       THEN /\ step' = "processing"
            /\ fileName' = name
            /\ uploads' = uploads (+) SetToBag({NewUpload(pendingPhoto, name, online)})
            /\ pendingPhoto' = 0
            /\ showFilenameInput' = FALSE
            /\ lastOp' = Op("process.started", name)
       ELSE /\ lastOp' = Op("process.ignored", name)
            /\ UNCHANGED <<step, fileName, uploads, dialogVars>>
  /\ UNCHANGED <<comp, pureVars, swVars, crop, emptyEncodes, objectUrls, panelVars, modernVars, mounted, streamVars, camVars, photoBlob,
                 conversation, messages, nBlobs, encodes>>

\* CameraVoiceFlow.handleFilenameCancel
handleFilenameCancel ==
  /\ comp = "useCamera" /\ mounted
  /\ showFilenameInput
  /\ pendingPhoto' = 0
  /\ showFilenameInput' = FALSE
  /\ ResetFlow
  /\ lastOp' = Op("filename.cancel", "")
  /\ UNCHANGED <<comp, pureVars, swVars, crop, emptyEncodes, objectUrls, panelVars, modernVars, mounted, nStreams, calls, flowIO>>

\* The toast a processPhotoWithFilename call shows before it returns: the
\* catch block shows a destructive one carrying error.message.
Toast(outcome) ==
  IF outcome \in {"httpError", "fetchFailed", "saveFailed"}
    THEN [variant |-> "destructive",
          description |-> IF outcome = "httpError" THEN "N8N webhook error: status"
                          ELSE "error.message"]
    ELSE [variant |-> "default",
          description |-> IF outcome = "saved" THEN "offline" ELSE "sent"]

\* What a processPhotoWithFilename call reports when it returns.
Done(call, outcome, resp) ==
  Op("process.done",
     [blob |-> call.blob, name |-> call.name, sent |-> call.sent,
      saved |-> call.saved, outcome |-> outcome, resp |-> resp,
      toast |-> Toast(outcome)])

NoResponse == Response(FALSE, FALSE, "empty", FALSE, "", FALSE)

\* The offline branch: saveOffline returns or throws, and the flow is reset
\* (by the branch itself or by the catch block).
UploadSaved(call, stored) ==
  /\ comp = "useCamera"
  /\ call.pc = "saving"
  /\ uploads' = uploads (-) SetToBag({call})
  /\ ResetFlow
  /\ lastOp' = Done(call, IF stored THEN "saved" ELSE "saveFailed", NoResponse)
  /\ UNCHANGED <<comp, pureVars, swVars, crop, emptyEncodes, objectUrls, panelVars, modernVars, mounted, nStreams, calls, conversation, messages,
                 nBlobs, encodes, dialogVars>>

\* The data the response handling of processPhotoWithFilename works on.
ParseResponse(resp) ==
  IF resp.json
    THEN IF resp.body = "empty" THEN [hasText |-> FALSE, text |-> "", audio |-> FALSE]
         ELSE IF resp.body = "garbage"
           THEN [hasText |-> TRUE, text |-> RawText, audio |-> FALSE]
           ELSE [hasText |-> resp.hasText, text |-> resp.text, audio |-> resp.audio]
    ELSE [hasText |-> FALSE, text |-> "", audio |-> FALSE]

\* `data && data.textResponse`: an absent or empty string is falsy.
HasTextResponse(data) == data.hasText /\ data.text # ""

\* A faulty failure handling that sends the POST once more; C17 must tell it
\* from the catch block of the code.
UploadFailedRetries(call) ==
  /\ comp = "useCamera"
  /\ call.pc = "fetch"
  /\ IF Len(call.sent) = 1
       THEN /\ uploads' = (uploads (-) SetToBag({call})) (+)
                   SetToBag({[call EXCEPT !.sent = call.sent \o call.sent]})
            /\ lastOp' = Op("process.retry", call.name)
            /\ UNCHANGED <<flowState, live, streamRef, videoSrc, metaArmed, isOpen>>
       ELSE /\ uploads' = uploads (-) SetToBag({call})
            /\ ResetFlow
            /\ lastOp' = Done(call, "fetchFailed", NoResponse)
  /\ UNCHANGED <<comp, pureVars, swVars, crop, emptyEncodes, objectUrls, panelVars, modernVars, mounted, nStreams, calls,
                 conversation, messages, nBlobs, encodes, dialogVars>>

\* fetch rejects, or response.text() does: the catch block resets the flow.
UploadFailed(call) ==
  /\ comp = "useCamera"
  /\ call.pc = "fetch"
  /\ uploads' = uploads (-) SetToBag({call})
  /\ ResetFlow
  /\ lastOp' = Done(call, "fetchFailed", NoResponse)
  /\ UNCHANGED <<comp, pureVars, swVars, crop, emptyEncodes, objectUrls, panelVars, modernVars, mounted, nStreams, calls, conversation, messages,
                 nBlobs, encodes, dialogVars>>

\* The webhook answers the POST: processPhotoWithFilename from the status
\* check to its return, or to its await of playAudioResponse.
UploadAnswered(call, resp) ==
  /\ comp = "useCamera"
  /\ call.pc = "fetch"
  /\ LET data == ParseResponse(resp)
     IN IF resp.ok /\ HasTextResponse(data)
          THEN /\ messages' = AddMessage(messages, data.text)
               /\ IF data.audio
                    THEN /\ step' = SetState(step, "playing")
                         /\ uploads' = (uploads (-) SetToBag({call})) (+)
                                SetToBag({[call EXCEPT !.pc = "playing"]})
                         /\ lastOp' = Op("process.playing",
                                         [blob |-> call.blob, name |-> call.name,
                                          resp |-> resp])
                         /\ UNCHANGED <<photoBlob, fileName, live, streamRef,
                                        videoSrc, metaArmed, isOpen>>
                    ELSE /\ uploads' = uploads (-) SetToBag({call})
                         /\ ResetFlow
                         /\ lastOp' = Done(call, "answered", resp)
          ELSE /\ uploads' = uploads (-) SetToBag({call})
               /\ ResetFlow
               /\ lastOp' = Done(call, IF resp.ok THEN "answered" ELSE "httpError", resp)
               /\ UNCHANGED messages
  /\ UNCHANGED <<comp, pureVars, swVars, crop, emptyEncodes, objectUrls, panelVars, modernVars, mounted, nStreams, calls, conversation,
                 nBlobs, encodes, dialogVars>>

\* A faulty return after playback that leaves the flow as it is; C28 must tell
\* it from the code, which resets the flow on every path.
AudioFinishedWithoutReset(call) ==
  /\ comp = "useCamera"
  /\ call.pc = "playing"
  /\ uploads' = uploads (-) SetToBag({call})
  /\ lastOp' = Done(call, "played", NoResponse)
  /\ UNCHANGED <<comp, pureVars, swVars, crop, emptyEncodes, objectUrls, panelVars, modernVars, mounted, nStreams, calls, conversation, messages,
                 nBlobs, encodes, dialogVars, flowState, live, streamRef, videoSrc, metaArmed, isOpen>>

\* playAudioResponse resolves (ended) or rejects (error, play refused,
\* undecodable data): either way the call goes on to reset the flow.
AudioFinished(call) ==
  /\ comp = "useCamera"
  /\ call.pc = "playing"
  /\ uploads' = uploads (-) SetToBag({call})
  /\ ResetFlow
  /\ lastOp' = Done(call, "played", NoResponse)
  /\ UNCHANGED <<comp, pureVars, swVars, crop, emptyEncodes, objectUrls, panelVars, modernVars, mounted, nStreams, calls, conversation, messages,
                 nBlobs, encodes, dialogVars>>

\* ---------------------------------------------------------- CameraPanel
\* The <video> element of CameraPanel is rendered in state 'ready' only:
\* videoRef.current is null in every other state.
PanelVideo == mounted /\ state = "ready"

\* cleanup: the watchdog is cleared, the held stream stopped and dropped.
PanelCleanup ==
  /\ openWatchdogRef' = FALSE
  /\ live' = StopTracks(live, streamRef)
  /\ streamRef' = 0
  /\ videoSrc' = 0
  /\ metaArmed' = FALSE

\* The attempts array of tryGetStream.
PanelAttempts(deviceId, facing) ==
  (IF deviceId # "" THEN <<"deviceId-" \o deviceId>> ELSE <<>>) \o
  <<"facingMode-" \o facing, "ideal-environment", "ideal-user", "any">>

\* The error text the catch block of startCamera chooses.
PanelErrorKey(name) ==
  IF name = "NotAllowedError" THEN "errors.permissionDenied"
  ELSE IF name = "NotFoundError" THEN "errors.noCamera"
  ELSE "errors.cameraAccess"

\* enumerateDevices answers an initializeDevices call (n = 0 stands for an
\* empty list and for a rejection: both end in the catch block).
DevicesEnumerated(n) ==
  /\ comp = "CameraPanel"
  /\ enumerating
  /\ enumerating' = FALSE
  /\ IF n = 0
       THEN /\ state' = SetState(state, "error")
            /\ error' = SetState(error, "errors.deviceInit")
       ELSE UNCHANGED <<state, error>>
  /\ availableDevices' = SetState(availableDevices, n)
  /\ lastOp' = Op("initializeDevices", "")
  /\ UNCHANGED <<comp, pureVars, swVars, crop, emptyEncodes, objectUrls, mounted, streamVars, camVars, modernVars, flowVars,
                 facingMode, openWatchdogRef, isActiveProp, hidden, capturedBlob>>

\* The devicechange listener calls initializeDevices (one call at a time is
\* kept in flight).
DeviceChange ==
  /\ comp = "CameraPanel" /\ mounted
  /\ ~enumerating
  /\ enumerating' = TRUE
  /\ lastOp' = Op("devicechange", "")
  /\ UNCHANGED <<comp, pureVars, swVars, crop, emptyEncodes, objectUrls, mounted, streamVars, camVars, modernVars, flowVars,
                 state, error, facingMode, availableDevices, openWatchdogRef,
                 isActiveProp, hidden, capturedBlob>>

\* A faulty startCamera without the test of the state; C33 must tell it from
\* the code.
PanelStartCameraUnguarded ==
  /\ comp = "CameraPanel" /\ mounted
  /\ CanStartOpen
  /\ state' = "opening"
  /\ error' = "none"
  /\ PanelCleanup
  /\ calls' = calls (+) SetToBag({NewCall(PanelAttempts("", facingMode))})
  /\ lastOp' = Op("open.start", "")
  /\ UNCHANGED <<comp, pureVars, swVars, crop, emptyEncodes, objectUrls, mounted, nStreams, camVars, modernVars, flowVars,
                 facingMode, availableDevices, enumerating, isActiveProp,
                 hidden, capturedBlob>>

\* startCamera up to its first getUserMedia request.  The open button is
\* rendered in 'idle', the retry button in 'denied' and 'error'; a call in
\* 'opening' or 'ready' returns at once.
PanelStartCamera ==
  /\ comp = "CameraPanel" /\ mounted
  /\ IF state \in {"opening", "ready"}
       THEN /\ lastOp' = Op("open.ignored", "")
            /\ UNCHANGED <<state, error, openWatchdogRef, live, streamRef,
                           videoSrc, metaArmed, calls>>
       ELSE /\ CanStartOpen
            /\ state' = "opening"
            /\ error' = "none"
            /\ PanelCleanup
            /\ calls' = calls (+) SetToBag({NewCall(PanelAttempts("", facingMode))})
            /\ lastOp' = Op("open.start", "")
  /\ UNCHANGED <<comp, pureVars, swVars, crop, emptyEncodes, objectUrls, mounted, nStreams, camVars, modernVars, flowVars,
                 facingMode, availableDevices, enumerating, isActiveProp,
                 hidden, capturedBlob>>

\* tryGetStream runs to its end and startCamera goes on: without a video
\* element it throws, with one it stores and attaches the stream, marks the
\* session ready if the track is live and unmuted, and arms the watchdog;
\* when every request was rejected the catch block maps the last error.
PanelAcquire(call, answers, trackReady) ==
  /\ comp = "CameraPanel"
  /\ call.pc = "gum"
  /\ LET r == TryConstraints(call.attempts, answers)
         s == nStreams + 1
     IN IF r.ok
          THEN /\ nStreams' = s
               /\ IF ~PanelVideo
                    THEN /\ live' = StopTracks(live \cup {s}, streamRef)
                         /\ streamRef' = 0
                         /\ videoSrc' = 0
                         /\ metaArmed' = FALSE
                         /\ openWatchdogRef' = FALSE
                         /\ state' = SetState(state, "error")
                         /\ error' = SetState(error, "errors.cameraAccess")
                         /\ calls' = Without(call)
                         /\ lastOp' = Op("open.rejected",
                                OpenResult(call, answers, r, "errors.videoElement", s))
                    ELSE /\ live' = live \cup {s}
                         /\ streamRef' = s
                         /\ videoSrc' = s
                         /\ metaArmed' = TRUE
                         /\ openWatchdogRef' = TRUE
                         /\ state' = IF trackReady /\ state = "opening"
                                       THEN "ready" ELSE state
                         /\ calls' = Replace(call,
                               [call EXCEPT !.pc = "wait", !.stream = s, !.timer = TRUE])
                         /\ lastOp' = Op("open.acquired",
                                OpenResult(call, answers, r, "none", s))
                         /\ UNCHANGED error
          ELSE /\ PanelCleanup
               /\ state' = SetState(state, IF r.lastErr = "NotAllowedError"
                                             THEN "denied" ELSE "error")
               /\ error' = SetState(error, PanelErrorKey(r.lastErr))
               /\ calls' = Without(call)
               /\ lastOp' = Op("open.rejected",
                               OpenResult(call, answers, r, r.lastErr, 0))
               /\ UNCHANGED nStreams
  /\ UNCHANGED <<comp, pureVars, swVars, crop, emptyEncodes, objectUrls, mounted, camVars, modernVars, flowVars, facingMode,
                 availableDevices, enumerating, isActiveProp, hidden, capturedBlob>>

\* The body of closeCamera.
PanelClose ==
  /\ PanelCleanup
  /\ state' = SetState(state, "idle")
  /\ error' = SetState(error, "none")

\* The close button, rendered in 'ready', 'denied' and 'error'.
closeCamera ==
  /\ comp = "CameraPanel" /\ mounted
  /\ state \in {"ready", "denied", "error"}
  /\ PanelClose
  /\ lastOp' = Op("close", "")
  /\ UNCHANGED <<comp, pureVars, swVars, crop, emptyEncodes, objectUrls, mounted, nStreams, calls, camVars, modernVars, flowVars,
                 facingMode, availableDevices, enumerating, isActiveProp,
                 hidden, capturedBlob>>

\* captureImage called outside 'ready' (or without the video element): it
\* returns at its first line.
captureImage ==
  /\ comp = "CameraPanel" /\ mounted
  /\ state # "ready" \/ ~PanelVideo
  /\ lastOp' = Op("capture.ignored", "")
  /\ UNCHANGED <<comp, pureVars, swVars, crop, emptyEncodes, objectUrls, mounted, streamVars, camVars, panelVars, modernVars, flowVars>>

\* document fires visibilitychange: a hidden document closes a 'ready' panel.
VisibilityChange ==
  /\ comp = "CameraPanel" /\ mounted
  /\ hidden' = ~hidden
  /\ IF ~hidden /\ state = "ready"
       THEN PanelClose
       ELSE UNCHANGED <<state, error, openWatchdogRef, live, streamRef,
                        videoSrc, metaArmed>>
  /\ lastOp' = Op("visibilitychange", "")
  /\ UNCHANGED <<comp, pureVars, swVars, crop, emptyEncodes, objectUrls, mounted, nStreams, calls, camVars, modernVars, flowVars,
                 facingMode, availableDevices, enumerating, isActiveProp, capturedBlob>>

\* The host changes the isActive prop: the effect closes a 'ready' panel
\* that became inactive.
ActiveChange ==
  /\ comp = "CameraPanel" /\ mounted
  /\ isActiveProp' = ~isActiveProp
  /\ IF isActiveProp /\ state = "ready"
       THEN PanelClose
       ELSE UNCHANGED <<state, error, openWatchdogRef, live, streamRef,
                        videoSrc, metaArmed>>
  /\ lastOp' = Op("isActive", "")
  /\ UNCHANGED <<comp, pureVars, swVars, crop, emptyEncodes, objectUrls, mounted, nStreams, calls, camVars, modernVars, flowVars,
                 facingMode, availableDevices, enumerating, hidden, capturedBlob>>

\* The unmount cleanup of CameraPanel.
PanelUnmount ==
  /\ comp = "CameraPanel" /\ mounted
  /\ mounted' = FALSE
  /\ PanelCleanup
  /\ lastOp' = Op("unmount", "")
  /\ UNCHANGED <<comp, pureVars, swVars, crop, emptyEncodes, objectUrls, nStreams, calls, camVars, modernVars, flowVars,
                 state, error, facingMode, availableDevices, enumerating,
                 isActiveProp, hidden, capturedBlob>>

\* --------------------------------------- useModernCamera, ModernCameraApp
\* The constraints array of useModernCamera.startCamera.
ModernConstraints ==
  <<"environment-1080p-16:9", "environment-720p", "user", "any">>

\* ModernCameraView renders the <video> element only while the camera is
\* active and no captured image is shown.
ModernVideo == mounted /\ appIsOpen /\ isActive /\ capturedBlob = 0

\* useModernCamera.stopCamera
StopCamera ==
  /\ live' = StopTracks(live, streamRef)
  /\ streamRef' = 0
  /\ videoSrc' = 0
  /\ metaArmed' = FALSE
  /\ isActive' = SetState(isActive, FALSE)
  /\ error' = SetState(error, "none")

\* ModernCameraApp.handleOpenCamera and the effect it triggers:
\* useModernCamera.startCamera up to its first getUserMedia request.  The
\* stream held so far is stopped but stays in streamRef.
handleOpenCamera ==
  /\ comp = "useModernCamera" /\ mounted
  /\ ~appIsOpen
  /\ CanStartOpen
  /\ appIsOpen' = TRUE
  /\ error' = "none"
  /\ live' = StopTracks(live, streamRef)
  /\ calls' = calls (+) SetToBag({NewCall(ModernConstraints)})
  /\ lastOp' = Op("open.start", "")
  /\ UNCHANGED <<comp, pureVars, swVars, crop, emptyEncodes, objectUrls, mounted, nStreams, streamRef, videoSrc, metaArmed,
                 camVars, flowVars, isActive, state, facingMode,
                 availableDevices, openWatchdogRef, enumerating, isActiveProp,
                 hidden, capturedBlob>>

\* The constraint loop of startCamera runs to its end: the stream is stored
\* and, with a video element, the call waits for loadedmetadata under a 10 s
\* timer; without a stream the catch block records the error.
ModernAcquire(call, answers) ==
  /\ comp = "useModernCamera"
  /\ call.pc = "gum"
  /\ LET r == TryConstraints(call.attempts, answers)
         s == nStreams + 1
     IN IF r.ok
          THEN /\ nStreams' = s
               /\ live' = live \cup {s}
               /\ streamRef' = s
               /\ IF ModernVideo
                    THEN /\ videoSrc' = s
                         /\ metaArmed' = TRUE
                         /\ calls' = Replace(call,
                               [call EXCEPT !.pc = "wait", !.stream = s, !.timer = TRUE])
                    ELSE /\ calls' = Without(call)
                         /\ UNCHANGED <<videoSrc, metaArmed>>
               /\ lastOp' = Op("open.acquired", OpenResult(call, answers, r, "none", s))
               /\ UNCHANGED <<error, isActive>>
          ELSE /\ error' = SetState(error, "No camera access available")
               /\ isActive' = SetState(isActive, FALSE)
               /\ calls' = Without(call)
               /\ lastOp' = Op("open.rejected",
                               OpenResult(call, answers, r, "No camera access available", 0))
               /\ UNCHANGED <<nStreams, live, streamRef, videoSrc, metaArmed>>
  /\ UNCHANGED <<comp, pureVars, swVars, crop, emptyEncodes, objectUrls, mounted, camVars, flowVars, appIsOpen, state, facingMode,
                 availableDevices, openWatchdogRef, enumerating, isActiveProp,
                 hidden, capturedBlob>>

\* ModernCameraApp.handleCloseCamera; its button is rendered while the
\* overlay is open.
handleCloseCamera ==
  /\ comp = "useModernCamera" /\ mounted
  /\ appIsOpen
  /\ StopCamera
  /\ appIsOpen' = FALSE
  /\ capturedBlob' = 0
  /\ showFilenameInput' = FALSE
  /\ lastOp' = Op("close", "")
  /\ UNCHANGED <<comp, pureVars, swVars, crop, emptyEncodes, objectUrls, mounted, nStreams, calls, camVars, flowState, flowIO,
                 pendingPhoto, state, facingMode, availableDevices,
                 openWatchdogRef, enumerating, isActiveProp, hidden>>

\* ModernCameraApp.handleCapture while capturePhoto rejects with 'Camera not
\* ready': isProcessing goes up and, in the finally block, down again.
handleCapture ==
  /\ comp = "useModernCamera" /\ mounted
  /\ appIsOpen
  /\ ~ModernVideo \/ ~isActive
  /\ lastOp' = Op("capture.rejected", "Camera not ready")
  /\ UNCHANGED <<comp, pureVars, swVars, crop, emptyEncodes, objectUrls, mounted, streamVars, camVars, panelVars, modernVars, flowVars>>

\* The unmount cleanup of useModernCamera.
ModernUnmount ==
  /\ comp = "useModernCamera" /\ mounted
  /\ mounted' = FALSE
  /\ live' = StopTracks(live, streamRef)
  /\ videoSrc' = 0
  /\ metaArmed' = FALSE
  /\ lastOp' = Op("unmount", "")
  /\ UNCHANGED <<comp, pureVars, swVars, crop, emptyEncodes, objectUrls, nStreams, streamRef, calls, camVars, panelVars,
                 modernVars, flowVars>>

\* No capturePhoto call has cropped a frame.
NoCrop == [done |-> FALSE]

\* ------------------------------- useModernCamera.capturePhoto: cropping
\* The numbers capturePhoto computes are fractions; they are kept exact, as
\* a numerator and a denominator in lowest terms.
RECURSIVE GCD(_, _)
GCD(a, b) == IF b = 0 THEN a ELSE GCD(b, a % b)

Rat(n, d) == LET g == GCD(n, d) IN [n |-> n \div g, d |-> d \div g]

RatMul(a, b) == Rat(a.n * b.n, a.d * b.d)

RatDiv(a, b) == Rat(a.n * b.d, a.d * b.n)

RatSub(a, b) == Rat(a.n * b.d - b.n * a.d, a.d * b.d)

RatAdd(a, b) == Rat(a.n * b.d + b.n * a.d, a.d * b.d)

\* a > b
RatGreater(a, b) == a.n * b.d > b.n * a.d

\* Assigning a number to canvas.width or canvas.height keeps its whole part.
ToPixels(a) == a.n \div a.d

\* A faulty crop that is anchored at the top left corner; C20 must tell it
\* from the crop of the code.
CropRectTopLeft(W, H, w, h) ==
  LET displayAspectRatio == Rat(w, h)
  IN IF RatGreater(Rat(W, H), displayAspectRatio)
       THEN [sourceX |-> Rat(0, 1), sourceY |-> Rat(0, 1),
             sourceWidth |-> RatMul(Rat(H, 1), displayAspectRatio),
             sourceHeight |-> Rat(H, 1)]
       ELSE [sourceX |-> Rat(0, 1), sourceY |-> Rat(0, 1),
             sourceWidth |-> Rat(W, 1),
             sourceHeight |-> RatDiv(Rat(W, 1), displayAspectRatio)]

\* A faulty crop that takes the branches the other way round, fitting the
\* frame into the box instead of covering it; C35 must tell it from the code.
CropRectContain(W, H, w, h) ==
  LET videoAspectRatio == Rat(W, H)
      displayAspectRatio == Rat(w, h)
  IN IF RatGreater(videoAspectRatio, displayAspectRatio)
       THEN LET sourceHeight == RatDiv(Rat(W, 1), displayAspectRatio)
            IN [sourceX |-> Rat(0, 1),
                sourceY |-> RatDiv(RatSub(Rat(H, 1), sourceHeight), Rat(2, 1)),
                sourceWidth |-> Rat(W, 1),
                sourceHeight |-> sourceHeight]
       ELSE LET sourceWidth == RatMul(Rat(H, 1), displayAspectRatio)
            IN [sourceX |-> RatDiv(RatSub(Rat(W, 1), sourceWidth), Rat(2, 1)),
                sourceY |-> Rat(0, 1),
                sourceWidth |-> sourceWidth,
                sourceHeight |-> Rat(H, 1)]

\* The source rectangle of capturePhoto for a W x H frame shown in a w x h
\* box: the sides of a wider frame are cropped, else its top and bottom.
CropRect(W, H, w, h) ==
  LET videoAspectRatio == Rat(W, H)
      displayAspectRatio == Rat(w, h)
  IN IF RatGreater(videoAspectRatio, displayAspectRatio)
       THEN LET sourceWidth == RatMul(Rat(H, 1), displayAspectRatio)
            IN [sourceX |-> RatDiv(RatSub(Rat(W, 1), sourceWidth), Rat(2, 1)),
                sourceY |-> Rat(0, 1),
                sourceWidth |-> sourceWidth,
                sourceHeight |-> Rat(H, 1)]
       ELSE LET sourceHeight == RatDiv(Rat(W, 1), displayAspectRatio)
            IN [sourceX |-> Rat(0, 1),
                sourceY |-> RatDiv(RatSub(Rat(H, 1), sourceHeight), Rat(2, 1)),
                sourceWidth |-> Rat(W, 1),
                sourceHeight |-> sourceHeight]

\* The canvas capturePhoto draws on: outputWidth x outputHeight as
\* computed, and the whole pixels the canvas element keeps of them.
CanvasSize(w, h) ==
  LET outputWidth == Rat(IF w > MinOutputWidth THEN w ELSE MinOutputWidth, 1)
      outputHeight == RatDiv(outputWidth, Rat(w, h))
  IN [outputWidth |-> outputWidth, outputHeight |-> outputHeight,
      width |-> ToPixels(outputWidth), height |-> ToPixels(outputHeight)]

\* The frames and display boxes capturePhoto is applied to.
Frames ==
  [W : FrameWidths, H : FrameHeights, w : DisplayWidths, h : DisplayHeights]

\* capturePhoto from its reading of the video dimensions to drawImage.
capturePhoto ==
  /\ ~crop.done
  /\ crop' = [done |-> TRUE, frame |-> crop.frame,
              rect |-> CropRect(crop.frame.W, crop.frame.H, crop.frame.w, crop.frame.h),
              canvas |-> CanvasSize(crop.frame.w, crop.frame.h)]
  /\ UNCHANGED <<comp, pureVars, swVars, mounted, lastOp, streamVars, camVars, panelVars, modernVars,
                 flowVars, objectUrls, emptyEncodes>>

\* ------------------- useCameraVoiceFlow: the audioResponse of an answer
\* A string is kept as the sequence of the pieces it is made of. No piece is
\* a prefix of another, so a string starts with a piece exactly when the
\* piece is its first element.
AudioChunks == {"data:audio/", "blob:", "mpeg;base64,", "QUJD"}

\* The longest audioResponse considered, in pieces.
MaxChunks == 3

\* The non-empty audioResponse values a webhook answer may carry.
AudioResponses == UNION {[1..n -> AudioChunks] : n \in 1..MaxChunks}

\* No webhook answer with an audioResponse is being handled.
NoAudio == [stage |-> "none"]

\* String.prototype.startsWith for a prefix that is one piece.
StartsWith(s, prefix) == Len(s) >= 1 /\ s[1] = prefix

\* atob: "QUJD" is base64 for "ABC"; the other pieces hold ':' , ';' or ','
\* and make atob throw.
IsBase64(s) == \A i \in 1..Len(s) : s[i] = "QUJD"
Atob(s) == [i \in 1..Len(s) |-> "ABC"]

\* analysisMessage.audioUrl as processPhotoWithFilename sets it.
MessageAudioUrl(audioResponse) == <<"data:audio/", "mpeg;base64,">> \o audioResponse

\* What playAudioResponse hands to new Audio(): the string itself, or the
\* object URL of an audio/mpeg blob of the decoded bytes, unless atob throws.
PlaybackUrl(audioData) ==
  IF StartsWith(audioData, "data:audio/") \/ StartsWith(audioData, "blob:")
    THEN [kind |-> "url", url |-> audioData]
    ELSE IF IsBase64(audioData)
      THEN [kind |-> "objectUrl", type |-> "audio/mpeg", bytes |-> Atob(audioData)]
      ELSE [kind |-> "error", message |-> "Audio format not supported"]

\* processPhotoWithFilename attaches the audio URL to the assistant message.
attachAudioUrl ==
  /\ audio.stage = "answered"
  /\ audio' = [stage |-> "attached", audioResponse |-> audio.audioResponse,
               messageUrl |-> MessageAudioUrl(audio.audioResponse)]
  /\ UNCHANGED <<comp, shot, form, swVars, crop, mounted, lastOp, streamVars, camVars,
                 panelVars, modernVars, flowVars, objectUrls, emptyEncodes>>

\* playAudioResponse up to new Audio(audioUrl).
playAudioResponse ==
  /\ audio.stage = "attached"
  /\ audio' = [stage |-> "played", audioResponse |-> audio.audioResponse,
               messageUrl |-> audio.messageUrl,
               playback |-> PlaybackUrl(audio.audioResponse)]
  /\ UNCHANGED <<comp, shot, form, swVars, crop, mounted, lastOp, streamVars, camVars,
                 panelVars, modernVars, flowVars, objectUrls, emptyEncodes>>

\* ------------------------------ useCamera.capture: canvas and rotation
\* The values of currentOrientation: the four angles of screen.orientation,
\* -90 of window.orientation, and 45 for any other number.
Orientations == {0, 90, 180, 270, -90, 45}

\* video.videoWidth and video.videoHeight of an open session.
VideoWidths == {640, 1080, 1920, 3840}
VideoHeights == {480, 1080, 2160}

Min(a, b) == IF a < b THEN a ELSE b

\* A faulty switch that never swaps the axes; C32 must tell it from the code.
CaptureCanvasKeepsAxes(orientation, videoWidth, videoHeight) ==
  [canvasWidth |-> Min(videoWidth, 1080),
   canvasHeight |-> Min(videoHeight, 1920),
   rotation |-> IF orientation = 90 THEN -90
                ELSE IF orientation \in {-90, 270} THEN 90
                ELSE IF orientation = 180 THEN 180 ELSE 0]

\* The switch on currentOrientation in capture: the size of the canvas and
\* the rotation of its drawing context, in degrees.
CaptureCanvas(orientation, videoWidth, videoHeight) ==
  IF orientation = 0
    THEN [canvasWidth |-> Min(videoWidth, 1080),
          canvasHeight |-> Min(videoHeight, 1920), rotation |-> 0]
  ELSE IF orientation = 90
    THEN [canvasWidth |-> Min(videoHeight, 1920),
          canvasHeight |-> Min(videoWidth, 1080), rotation |-> -90]
  ELSE IF orientation \in {-90, 270}
    THEN [canvasWidth |-> Min(videoHeight, 1920),
          canvasHeight |-> Min(videoWidth, 1080), rotation |-> 90]
  ELSE IF orientation = 180
    THEN [canvasWidth |-> Min(videoWidth, 1080),
          canvasHeight |-> Min(videoHeight, 1920), rotation |-> 180]
  ELSE IF videoWidth > videoHeight
    THEN [canvasWidth |-> Min(videoWidth, 1920),
          canvasHeight |-> Min(videoHeight, 1080), rotation |-> 0]
    ELSE [canvasWidth |-> Min(videoWidth, 1080),
          canvasHeight |-> Min(videoHeight, 1920), rotation |-> 0]

\* The size drawImage gives the frame: with a quarter turn the frame is drawn
\* canvasHeight wide and canvasWidth high.
DrawSize(c) ==
  IF c.rotation \in {-90, 90}
    THEN [width |-> c.canvasHeight, height |-> c.canvasWidth]
    ELSE [width |-> c.canvasWidth, height |-> c.canvasHeight]

\* capture from its reading of the video dimensions to drawImage.
capture ==
  /\ ~shot.done
  /\ LET c == CaptureCanvas(shot.orientation, shot.videoWidth, shot.videoHeight)
     IN shot' = [done |-> TRUE, orientation |-> shot.orientation,
                 videoWidth |-> shot.videoWidth, videoHeight |-> shot.videoHeight,
                 canvas |-> c, drawn |-> DrawSize(c)]
  /\ UNCHANGED <<comp, audio, form, swVars, crop, mounted, lastOp, streamVars, camVars,
                 panelVars, modernVars, flowVars, objectUrls, emptyEncodes>>

\* ----------------------------------------- FilenameInput: handleSubmit
\* The text of the input field is kept as the sequence of its characters.
Chars == {" ", "\t", "a"}

\* The longest text typed into the field.
MaxTyped == 4

TypedTexts == UNION {[1..n -> Chars] : n \in 0..MaxTyped}

\* The white space String.prototype.trim removes.
IsSpace(c) == c \in {" ", "\t"}

RECURSIVE TrimStart(_)
TrimStart(s) == IF s # <<>> /\ IsSpace(Head(s)) THEN TrimStart(Tail(s)) ELSE s

RECURSIVE TrimEnd(_)
TrimEnd(s) ==
  IF s # <<>> /\ IsSpace(s[Len(s)]) THEN TrimEnd(SubSeq(s, 1, Len(s) - 1)) ELSE s

\* A faulty trim that keeps the white space at the end; C36 must tell it
\* from String.prototype.trim.
TrimStartOnly(s) == TrimStart(s)

\* fileName.trim()
Trim(s) == TrimEnd(TrimStart(s))

\* The form is submitted: handleSubmit calls onSubmit with the trimmed text
\* unless that is empty.
handleSubmit ==
  /\ form.stage = "typed"
  /\ form' = [stage |-> "done", text |-> form.text,
              called |-> IF Trim(form.text) # <<>>
                           THEN [handler |-> "onSubmit", fileName |-> Trim(form.text)]
                           ELSE [handler |-> "none"]]
  /\ UNCHANGED <<comp, audio, shot, swVars, crop, mounted, lastOp, streamVars, camVars,
                 panelVars, modernVars, flowVars, objectUrls, emptyEncodes>>

\* The cancel button of the form.
cancelFilename ==
  /\ form.stage = "typed"
  /\ form' = [stage |-> "done", text |-> form.text, called |-> [handler |-> "onCancel"]]
  /\ UNCHANGED <<comp, audio, shot, swVars, crop, mounted, lastOp, streamVars, camVars,
                 panelVars, modernVars, flowVars, objectUrls, emptyEncodes>>

\* ------------------------------------------------- public/sw.js
CACHE_NAME == "tyokalu-app-v2"

STATIC_CACHE_URLS ==
  {"/", "/index.html", "/manifest.json", "/female-greeting.mp3",
   "/lovable-uploads/10bcea1a-822b-41ed-835a-637ece170831.png"}

\* The caches that may exist when the worker is installed: its own from an
\* earlier installation, the one of the previous version, and a foreign one.
CacheNames == {CACHE_NAME, "tyokalu-app-v1", "runtime"}

\* URLs are kept as the sequence of their pieces: the pieces of the origin
\* (scheme and host, then the port if it is not the default one), the path,
\* and the query if there is one.
SelfOrigin == <<"https://app.example">>
OtherPort == <<"https://app.example", ":8443">>
WebhookOrigin == <<"https://n8n.example">>

RequestUrl(request) == request.origin \o <<request.path>> \o request.search

\* The scope URL '/' of the worker.
RootUrl == SelfOrigin \o <<"/">>

\* The fetch events the pages of the origin cause.
Requests ==
  {[method |-> "GET", origin |-> SelfOrigin, path |-> "/", search |-> <<>>,
    mode |-> "navigate"],
   [method |-> "GET", origin |-> SelfOrigin, path |-> "/index.html",
    search |-> <<"?source=pwa">>, mode |-> "navigate"],
   [method |-> "GET", origin |-> SelfOrigin, path |-> "/assets/index.js", search |-> <<>>,
    mode |-> "no-cors"],
   [method |-> "POST", origin |-> SelfOrigin, path |-> "/api/log", search |-> <<>>,
    mode |-> "cors"],
   [method |-> "GET", origin |-> OtherPort, path |-> "/health", search |-> <<>>,
    mode |-> "cors"],
   [method |-> "GET", origin |-> WebhookOrigin, path |-> "/webhook/photo", search |-> <<>>,
    mode |-> "cors"],
   [method |-> "POST", origin |-> WebhookOrigin, path |-> "/webhook/photo", search |-> <<>>,
    mode |-> "cors"]}

\* The fetch events one behaviour delivers to the worker.
MaxEvents == 2

\* String.prototype.startsWith for a prefix of several pieces.
UrlStartsWith(url, prefix) ==
  Len(url) >= Len(prefix) /\ SubSeq(url, 1, Len(prefix)) = prefix

\* What an earlier worker left in a cache.
OldKeys(name) ==
  IF name = "runtime" THEN {}
  ELSE {RootUrl, SelfOrigin \o <<"/assets/index.js">>}

\* caches.match(request): some cache holds a response for the URL of a GET.
Cached(url) == \E name \in DOMAIN cacheStorage : url \in cacheStorage[name]

\* caches.open(CACHE_NAME) followed by the storing of urls.
PutAll(urls) ==
  [name \in DOMAIN cacheStorage \cup {CACHE_NAME} |->
     IF name = CACHE_NAME
       THEN (IF name \in DOMAIN cacheStorage THEN cacheStorage[name] ELSE {}) \cup urls
       ELSE cacheStorage[name]]

\* caches.delete(name)
DeleteCache(name) == [n \in DOMAIN cacheStorage \ {name} |-> cacheStorage[n]]

NoEvent == [pc |-> "none"]

\* The install listener: the cache is opened, and addAll stores all static
\* URLs or, when one of them cannot be fetched, none; then skipWaiting.
Install(fetched) ==
  /\ worker.state = "installing"
  /\ cacheStorage' = PutAll(IF fetched THEN {SelfOrigin \o <<path>> : path \in STATIC_CACHE_URLS}
                            ELSE {})
  /\ worker' = [worker EXCEPT !.state = IF fetched THEN "installed" ELSE "redundant"]
  /\ UNCHANGED <<comp, pureVars, handling, crop, mounted, lastOp, streamVars, camVars,
                 panelVars, modernVars, flowVars, objectUrls, emptyEncodes>>

\* A faulty activate listener that deletes every cache; C39 must tell it
\* from the code.
ActivateStartDeletesAll ==
  /\ worker.state = "installed"
  /\ worker' = [worker EXCEPT !.state = "activating",
                              !.cacheNames = DOMAIN cacheStorage,
                              !.toDelete = DOMAIN cacheStorage]
  /\ UNCHANGED <<comp, pureVars, cacheStorage, handling, crop, mounted, lastOp, streamVars,
                 camVars, panelVars, modernVars, flowVars, objectUrls, emptyEncodes>>

\* The activate listener up to Promise.all: caches.keys() has answered and
\* a caches.delete is under way for every name other than CACHE_NAME.
ActivateStart ==
  /\ worker.state = "installed"
  /\ worker' = [worker EXCEPT !.state = "activating",
                              !.cacheNames = DOMAIN cacheStorage,
                              !.toDelete = DOMAIN cacheStorage \ {CACHE_NAME}]
  /\ UNCHANGED <<comp, pureVars, cacheStorage, handling, crop, mounted, lastOp, streamVars,
                 camVars, panelVars, modernVars, flowVars, objectUrls, emptyEncodes>>

\* One caches.delete completes.
ActivateDelete(name) ==
  /\ worker.state = "activating"
  /\ name \in worker.toDelete
  /\ cacheStorage' = DeleteCache(name)
  /\ worker' = [worker EXCEPT !.toDelete = worker.toDelete \ {name}]
  /\ UNCHANGED <<comp, pureVars, handling, crop, mounted, lastOp, streamVars, camVars,
                 panelVars, modernVars, flowVars, objectUrls, emptyEncodes>>

\* Promise.all is fulfilled: clients.claim, and the handler completes.
ActivateDone ==
  /\ worker.state = "activating"
  /\ worker.toDelete = {}
  /\ worker' = [worker EXCEPT !.state = "activated"]
  /\ UNCHANGED <<comp, pureVars, cacheStorage, handling, crop, mounted, lastOp, streamVars,
                 camVars, panelVars, modernVars, flowVars, objectUrls, emptyEncodes>>

\* The fetch listener up to its return: the two guards, then respondWith.
FetchEvent(request) ==
  /\ worker.state = "activated"
  /\ handling.pc \in {"none", "done"}
  /\ worker.events < MaxEvents
  /\ worker' = [worker EXCEPT !.events = worker.events + 1]
  /\ IF request.method # "GET" \/ ~UrlStartsWith(RequestUrl(request), SelfOrigin)
       THEN handling' = [pc |-> "done", request |-> request, intercepted |-> FALSE,
                         fetches |-> 0, answer |-> "none"]
       ELSE handling' = [pc |-> "match", request |-> request, intercepted |-> TRUE,
                         fetches |-> 0, answer |-> "none"]
  /\ UNCHANGED <<comp, pureVars, cacheStorage, crop, mounted, lastOp, streamVars,
                 camVars, panelVars, modernVars, flowVars, objectUrls, emptyEncodes>>

\* A faulty handler that asks the network first; C37 must tell it from the
\* code.
MatchDoneNetworkFirst ==
  /\ handling.pc = "match"
  /\ handling' = [handling EXCEPT !.pc = "network", !.fetches = handling.fetches + 1]
  /\ UNCHANGED <<comp, pureVars, cacheStorage, worker, crop, mounted, lastOp, streamVars,
                 camVars, panelVars, modernVars, flowVars, objectUrls, emptyEncodes>>

\* caches.match(event.request) answers: the cached response is returned, or
\* fetch(event.request) is called.
MatchDone ==
  /\ handling.pc = "match"
  /\ IF Cached(RequestUrl(handling.request))
       THEN handling' = [handling EXCEPT !.pc = "done", !.answer = "cache"]
       ELSE handling' = [handling EXCEPT !.pc = "network",
                                         !.fetches = handling.fetches + 1]
  /\ UNCHANGED <<comp, pureVars, cacheStorage, worker, crop, mounted, lastOp, streamVars,
                 camVars, panelVars, modernVars, flowVars, objectUrls, emptyEncodes>>

\* The network answers: the response is returned, and a 200 response of
\* type 'basic' to a static URL is handed to cache.put.
NetworkAnswered(status) ==
  /\ handling.pc = "network"
  /\ LET request == handling.request
         type == IF request.origin = SelfOrigin THEN "basic" ELSE "cors"
     IN /\ handling' = [handling EXCEPT !.pc = "done", !.answer = "network"]
        /\ IF status = 200 /\ type = "basic" /\ request.path \in STATIC_CACHE_URLS
             THEN worker' = [worker EXCEPT !.puts = worker.puts \cup {RequestUrl(request)}]
             ELSE UNCHANGED worker
  /\ UNCHANGED <<comp, pureVars, cacheStorage, crop, mounted, lastOp, streamVars,
                 camVars, panelVars, modernVars, flowVars, objectUrls, emptyEncodes>>

\* fetch rejects: a navigation is answered with caches.match('/'), anything
\* else with undefined.
NetworkFailed ==
  /\ handling.pc = "network"
  /\ handling' = [handling EXCEPT
                    !.pc = "done",
                    !.answer = IF handling.request.mode = "navigate" /\ Cached(RootUrl)
                                 THEN "cache-root" ELSE "undefined"]
  /\ UNCHANGED <<comp, pureVars, cacheStorage, worker, crop, mounted, lastOp, streamVars,
                 camVars, panelVars, modernVars, flowVars, objectUrls, emptyEncodes>>

\* caches.open(CACHE_NAME).then(cache => cache.put(...)) completes.
CachePut(url) ==
  /\ url \in worker.puts
  /\ cacheStorage' = PutAll({url})
  /\ worker' = [worker EXCEPT !.puts = worker.puts \ {url}]
  /\ UNCHANGED <<comp, pureVars, handling, crop, mounted, lastOp, streamVars, camVars,
                 panelVars, modernVars, flowVars, objectUrls, emptyEncodes>>

\* ------------------------------------------------------- specification
InitSession ==
  /\ comp \in Components
  /\ mounted = TRUE
  /\ lastOp = Op("mount", "")
  /\ nStreams = 0
  /\ live = {}
  /\ streamRef = 0
  /\ videoSrc = 0
  /\ metaArmed = FALSE
  /\ calls = EmptyBag
  /\ isOpen = FALSE
  /\ state = "idle"
  /\ error = "none"
  /\ facingMode = "environment"
  /\ availableDevices = 0
  /\ openWatchdogRef = FALSE
  /\ enumerating = (comp = "CameraPanel")
  /\ isActiveProp = TRUE
  /\ hidden = FALSE
  /\ capturedBlob = 0
  /\ isActive = FALSE
  /\ appIsOpen = FALSE
  /\ step = "idle"
  /\ photoBlob = 0
  /\ fileName = ""
  /\ conversation \in {"undefined", "messages"}
  /\ messages = <<>>
  /\ nBlobs = 0
  /\ encodes = 0
  /\ uploads = EmptyBag
  /\ pendingPhoto = 0
  /\ showFilenameInput = FALSE
  /\ objectUrls = {}
  /\ emptyEncodes = 0

\* The parts of the program a behaviour of the camera components leaves alone.
NoShot == [done |-> FALSE]
NoForm == [stage |-> "none"]
NoWorker ==
  /\ cacheStorage = <<>>
  /\ worker = [state |-> "none"]
  /\ handling = NoEvent

Init ==
  /\ InitSession /\ crop = NoCrop
  /\ audio = NoAudio /\ shot = NoShot /\ form = NoForm /\ NoWorker

Next ==
  \/ startFlow
  \/ \E call \in Calls : OpenDelayDone(call)
  \/ \E call \in Calls : \E answers \in AnswersFor(call.attempts) : OpenAcquire(call, answers)
  \/ CamLoadedMetadata
  \/ CamVideoError
  \/ \E call \in Calls : OpenTimeout(call)
  \/ resetFlow
  \/ CamUnmount
  \/ \E hasContext \in BOOLEAN : handlePhotoCapture(hasContext)
  \/ \E hasBlob \in BOOLEAN : CaptureEncoded(hasBlob)
  \/ \E name \in FileNames, online \in BOOLEAN : handleFilenameSubmit(name, online)
  \/ handleFilenameCancel
  \/ \E call \in BagToSet(uploads) : \E stored \in BOOLEAN : UploadSaved(call, stored)
  \/ \E call \in BagToSet(uploads) : UploadFailed(call)
  \/ \E call \in BagToSet(uploads) : \E resp \in Responses : UploadAnswered(call, resp)
  \/ \E call \in BagToSet(uploads) : AudioFinished(call)

  \/ \E n \in DeviceCounts : DevicesEnumerated(n)
  \/ DeviceChange
  \/ PanelStartCamera
  \/ \E call \in Calls : \E answers \in AnswersFor(call.attempts) :
        \E trackReady \in BOOLEAN : PanelAcquire(call, answers, trackReady)
  \/ closeCamera
  \/ captureImage
  \/ VisibilityChange
  \/ ActiveChange
  \/ PanelUnmount
  \/ handleOpenCamera
  \/ \E call \in Calls : \E answers \in AnswersFor(call.attempts) : ModernAcquire(call, answers)
  \/ handleCloseCamera
  \/ handleCapture
  \/ ModernUnmount

Spec == Init /\ [][Next]_vars

\* capturePhoto applied to every frame and display box of Frames.
CropInit ==
  /\ InitSession
  /\ comp = "useModernCamera"
  /\ conversation = "undefined"
  /\ crop \in {[done |-> FALSE, frame |-> f] : f \in Frames}
  /\ audio = NoAudio /\ shot = NoShot /\ form = NoForm /\ NoWorker

CropNext == capturePhoto

CropSpec == CropInit /\ [][CropNext]_vars

\* The handling of every audioResponse of AudioResponses.
AudioInit ==
  /\ InitSession
  /\ comp = "useCamera"
  /\ conversation = "messages"
  /\ crop = NoCrop /\ shot = NoShot /\ form = NoForm /\ NoWorker
  /\ audio \in {[stage |-> "answered", audioResponse |-> a] : a \in AudioResponses}

AudioNext == attachAudioUrl \/ playAudioResponse

AudioSpec == AudioInit /\ [][AudioNext]_vars

\* capture applied to every orientation and video size.
ShotInit ==
  /\ InitSession
  /\ comp = "useCamera"
  /\ conversation = "messages"
  /\ crop = NoCrop /\ audio = NoAudio /\ form = NoForm /\ NoWorker
  /\ shot \in {[done |-> FALSE, orientation |-> o, videoWidth |-> vw, videoHeight |-> vh] :
                 o \in Orientations, vw \in VideoWidths, vh \in VideoHeights}

ShotNext == capture

ShotSpec == ShotInit /\ [][ShotNext]_vars

\* FilenameInput with every text of TypedTexts in its field.
FormInit ==
  /\ InitSession
  /\ comp = "useCamera"
  /\ conversation = "messages"
  /\ crop = NoCrop /\ audio = NoAudio /\ shot = NoShot /\ NoWorker
  /\ form \in {[stage |-> "typed", text |-> t] : t \in TypedTexts}

FormNext == handleSubmit \/ cancelFilename

FormSpec == FormInit /\ [][FormNext]_vars

\* The worker script has been evaluated and is about to be installed, with
\* any set of caches left by earlier workers.
SwInit ==
  /\ InitSession
  /\ comp = "useCamera"
  /\ conversation = "messages"
  /\ crop = NoCrop /\ audio = NoAudio /\ shot = NoShot /\ form = NoForm
  /\ \E names \in SUBSET CacheNames : cacheStorage = [name \in names |-> OldKeys(name)]
  /\ worker = [state |-> "installing", cacheNames |-> {}, toDelete |-> {},
               puts |-> {}, events |-> 0]
  /\ handling = NoEvent

SwNext ==
  \/ \E fetched \in BOOLEAN : Install(fetched)
  \/ ActivateStart
  \/ \E name \in CacheNames : ActivateDelete(name)
  \/ ActivateDone
  \/ \E request \in Requests : FetchEvent(request)
  \/ MatchDone
  \/ \E status \in {200, 404} : NetworkAnswered(status)
  \/ NetworkFailed
  \/ \E url \in worker.puts : CachePut(url)

SwSpec == SwInit /\ [][SwNext]_vars

\* Every awaited operation of a processPhotoWithFilename call completes:
\* saveOffline returns or throws, the POST is answered or fails, and
\* playAudioResponse resolves or rejects.
AwaitsComplete ==
  /\ WF_vars(\E call \in BagToSet(uploads) : \E stored \in BOOLEAN : UploadSaved(call, stored))
  /\ WF_vars(\E call \in BagToSet(uploads) :
               UploadFailed(call) \/ \E resp \in Responses : UploadAnswered(call, resp))
  /\ WF_vars(\E call \in BagToSet(uploads) : AudioFinished(call))

FairSpec == Spec /\ AwaitsComplete

\* ================================================================ claims
\* The steps an open takes after its handler returned.
LateOpenStep ==
  lastOp'.name \in {"open.delayDone", "open.acquired", "open.rejected",
                    "open.timeoutNoEffect", "loadedmetadata"}

\* The session is closed: the state close leaves behind.
SessionClosed ==
  \/ ~mounted
  \/ comp = "useCamera" /\ step = "idle" /\ ~isOpen /\ streamRef = 0
  \/ comp = "useModernCamera" /\ ~appIsOpen /\ ~isActive /\ streamRef = 0
  \/ comp = "CameraPanel" /\ state = "idle" /\ streamRef = 0

\* The step before was a close: closeCamera, handleCloseCamera (stopCamera),
\* resetFlow or handleFilenameCancel (useCamera.close).
JustClosed == lastOp.name \in {"close", "resetFlow", "filename.cancel"}

\* C1: at most one camera stream is live (acquired and not stopped) at any
\* time, in every session and under every interleaving.
C1_AtMostOneLiveStream == Cardinality(live) <= 1

\* C2: closing a session leaves zero live tracks: every stream acquired so
\* far has been stopped and the stream reference is null.
C2_CloseLeavesNoLiveTrack == JustClosed => (live = {} /\ streamRef = 0)

\* The first constraint getUserMedia grants, or the length of the list.
FirstOk(answers) ==
  IF \E i \in DOMAIN answers : answers[i] = "ok"
    THEN CHOOSE i \in DOMAIN answers :
           answers[i] = "ok" /\ \A j \in 1..(i - 1) : answers[j] # "ok"
    ELSE Len(answers)

\* The last step ended the constraint loop of an open.
LoopEnded ==
  /\ lastOp.name \in {"open.acquired", "open.rejected"}
  /\ lastOp.arg.answers # <<>>

\* C3: an open requests the constraints in list order, up to and including
\* the first that getUserMedia grants and none after it; the stream an open
\* stores in streamRef is the stream of that request.
C3_ConstraintsTriedInOrder ==
  LoopEnded =>
    LET r == lastOp.arg
        k == FirstOk(r.answers)
    IN /\ r.log = SubSeq(r.attempts, 1, k)
       /\ (r.answers[k] = "ok") = (r.stream # 0)
       /\ r.answers[k] = "ok" => r.at = k /\ r.stream = nStreams
       /\ lastOp.name = "open.acquired" => streamRef = r.stream /\ r.stream \in live

\* C3 happens: an open stored the stream of its third request, the first
\* two having been rejected.
C3_Witness ==
  /\ LoopEnded
  /\ lastOp.name = "open.acquired"
  /\ Len(lastOp.arg.log) = 3
  /\ streamRef = lastOp.arg.stream

\* C4: a late step of an open that was in flight when the session was
\* closed leaves the session closed and holds no live stream.
C4_LateStepsLeaveSessionClosed ==
  [][(SessionClosed /\ live = {} /\ LateOpenStep) => (SessionClosed' /\ live' = {})]_vars

\* C5: while the page is hidden, the panel inactive or the component
\* unmounted, the CameraPanel session has no live stream.
C5_PanelReleasedWhileAway ==
  (comp = "CameraPanel" /\ (hidden \/ ~isActiveProp \/ ~mounted)) => live = {}

\* A capture is requested while the session is not ready.
CaptureWhileNotReady ==
  \/ captureImage /\ state # "ready"
  \/ (\E hasContext \in BOOLEAN : handlePhotoCapture(hasContext)) /\ ~isOpen
  \/ handleCapture /\ ~isActive

\* Nothing but the record of the last step changes.
SessionUnchanged ==
  UNCHANGED <<comp, pureVars, swVars, crop, emptyEncodes, objectUrls, mounted, streamVars, camVars, panelVars, modernVars, flowVars>>

C8_NoTimerPendingAfterClose ==
  JustClosed => \A call \in Calls : ~call.timer

\* Every request of the open that just failed was rejected with
\* NotAllowedError.
AllDenied(op) ==
  /\ op.name = "open.rejected"
  /\ op.arg.answers # <<>>
  /\ \A i \in DOMAIN op.arg.answers : op.arg.answers[i] = "NotAllowedError"

AnsweredWithText ==
  /\ lastOp.name = "process.done"
  /\ lastOp.arg.outcome = "answered"
  /\ lastOp.arg.resp.ok /\ lastOp.arg.resp.json
  /\ lastOp.arg.resp.body = "object" /\ lastOp.arg.resp.hasText

\* C10: an upload made online sends exactly one POST whose filename field is
\* the name followed by ".jpg" and whose file is the blob; when the answer is
\* 2xx JSON with textResponse T, an assistant message T has been added, the
\* step is 'idle' and the camera is closed.
C10_UploadAnswerShown ==
  AnsweredWithText =>
    /\ lastOp.arg.sent = <<[file |-> lastOp.arg.blob,
                            fileLabel |-> lastOp.arg.name \o ".jpg",
                            filename |-> lastOp.arg.name \o ".jpg"]>>
    /\ messages # <<>> /\ messages[Len(messages)] = lastOp.arg.resp.text
    /\ mounted => step = "idle" /\ ~isOpen
    /\ streamRef = 0

\* The processPhotoWithFilename call that just returned had found the
\* device offline.
OfflineDone ==
  /\ lastOp.name = "process.done"
  /\ lastOp.arg.outcome \in {"saved", "saveFailed"}

\* C11: a submission made offline is handed to the offline queue by exactly
\* one saveOffline(blob, fileName, false) call, issues no HTTP request, and
\* ends with the flow reset to step 'idle'.
C11_OfflineHandedToQueue ==
  /\ \A u \in BagToSet(uploads) :
       u.pc = "saving" =>
         /\ u.sent = <<>>
         /\ u.saved = <<[blob |-> u.blob, fileName |-> u.name, wantAudio |-> FALSE]>>
  /\ OfflineDone =>
       /\ lastOp.arg.sent = <<>>
       /\ lastOp.arg.saved = <<[blob |-> lastOp.arg.blob, fileName |-> lastOp.arg.name,
                                wantAudio |-> FALSE]>>
       /\ mounted => step = "idle" /\ photoBlob = 0

\* C11 happens: the photo named site-42 was stored by the offline queue and
\* the flow is back in 'idle'.
C11_Witness ==
  /\ OfflineDone
  /\ lastOp.arg.outcome = "saved"
  /\ lastOp.arg.name = "site-42" /\ lastOp.arg.blob = 1
  /\ mounted /\ step = "idle"

\* A processPhotoWithFilename call goes on after its upload was answered or
\* failed, or after the audio of its answer ended.
UploadReturns == lastOp'.name \in {"process.done", "process.playing"}

\* C12: when the flow was reset during an upload and a new flow was started
\* (step 'camera'), the late completion of the old upload changes neither
\* the step, the photo, the camera nor the messages of the new flow.
C12_LateUploadIgnored ==
  [][(UploadReturns /\ mounted /\ step = "camera") =>
       UNCHANGED <<step, photoBlob, fileName, isOpen, live, streamRef, videoSrc,
                   messages>>]_vars

\* The capture that just ended failed at capture time: getContext returned
\* null, or toBlob yielded no blob.
CaptureFailed ==
  /\ lastOp.name = "capture.rejected"
  /\ lastOp.arg \in {"Canvas context not available", "Failed to create blob from canvas"}

\* C14: a capture-time failure leaves the session ready with its stream
\* still live: the flow is in step 'camera' with the camera open.
C14_CaptureFailureLeavesReady ==
  (CaptureFailed /\ mounted) =>
    /\ step = "camera"
    /\ isOpen
    /\ streamRef # 0 /\ streamRef \in live

\* The transitions the state machine of CameraPanel lists.
ListedTransitions ==
  { <<"idle", "opening">>, <<"opening", "ready">>, <<"ready", "capturing">>,
    <<"capturing", "ready">>, <<"opening", "denied">>, <<"opening", "error">>,
    <<"ready", "error">>, <<"ready", "idle">>, <<"error", "idle">>,
    <<"denied", "idle">> }

\* C15 as stated: every state change of CameraPanel is a listed transition.
C15_OnlyListedTransitions ==
  [][(comp = "CameraPanel" /\ state' # state) =>
       <<state, state'>> \in ListedTransitions]_vars

\* An open ended in this step: it threw, or it returned without waiting for
\* the video element.
OpenEnded ==
  \/ lastOp'.name = "open.rejected"
  \/ /\ lastOp'.name = "open.acquired"
     /\ BagCardinality(calls') < BagCardinality(calls)

\* The session is ready or active.
SessionActive == isOpen \/ isActive \/ state = "ready"

\* The session shows a failure: CameraPanel is in 'denied' or 'error',
\* useModernCamera has its error set, the open promise of a hook rejected.
SessionFailed ==
  \/ state \in {"denied", "error"}
  \/ error # "none"
  \/ comp # "CameraPanel" /\ lastOp.name = "open.rejected"

\* C16: every open that ends leaves the session ready or active, or else in
\* an error state or with its promise rejected.
C16_NoOpenFailureSwallowed ==
  [][(OpenEnded /\ mounted') => (SessionActive' \/ SessionFailed')]_vars

\* The upload that ends with op failed: the webhook answered non-2xx or the
\* fetch rejected.
UploadFailure(op) ==
  /\ op.name = "process.done"
  /\ op.arg.outcome \in {"httpError", "fetchFailed"}

\* C17: no call of processPhotoWithFilename issues more than one POST; a
\* non-2xx answer or a rejected fetch ends the call with a destructive toast
\* carrying the reason, and a POST is only ever issued by a submission of
\* the filename form.
C17_NoUploadRetry ==
  [][/\ \A u \in BagToSet(uploads') : Len(u.sent) <= 1
     /\ \A u \in BagToSet(uploads') \ BagToSet(uploads) :
          \/ lastOp'.name = "process.started"
          \/ u.pc = "playing" /\ [u EXCEPT !.pc = "fetch"] \in BagToSet(uploads)
     /\ UploadFailure(lastOp') =>
          /\ Len(lastOp'.arg.sent) = 1
          /\ lastOp'.arg.toast.variant = "destructive"
          /\ lastOp'.arg.toast.description # ""
          /\ BagCardinality(uploads') = BagCardinality(uploads) - 1
          /\ BagToSet(uploads') \subseteq BagToSet(uploads)]_vars

\* C17 happens: the webhook answered the one POST of a submission with a
\* non-2xx status, and no upload is in flight any more.
C17_Witness ==
  /\ UploadFailure(lastOp)
  /\ lastOp.arg.outcome = "httpError"
  /\ ~lastOp.arg.resp.ok
  /\ Len(lastOp.arg.sent) = 1
  /\ uploads = EmptyBag

\* The captured image has been consumed (its upload or offline hand-off
\* returned) or dropped (the filename form was cancelled).
ImageConsumed == lastOp.name \in {"process.done", "filename.cancel"}

\* C18: once the image is consumed or dropped, no object URL created for a
\* captured image remains unrevoked.
C18_PreviewUrlsReleased == ImageConsumed => objectUrls = {}

\* C20: for every frame W x H and display box w x h, the canvas capturePhoto
\* emits has aspect ratio w/h up to the fraction of a pixel row its height
\* loses; the source rectangle has exactly that aspect ratio, lies inside
\* the frame, spans the whole of one axis and is centred on the other (the
\* horizontal one when W/H > w/h, else the vertical one).
C20_CropCentredCover ==
  crop.done =>
    LET f == crop.frame
        r == crop.rect
        c == crop.canvas
    IN /\ c.height * f.w <= c.width * f.h
       /\ c.width * f.h < (c.height + 1) * f.w
       /\ c.height >= 1
       /\ RatMul(r.sourceWidth, Rat(f.h, 1)) = RatMul(r.sourceHeight, Rat(f.w, 1))
       /\ ~RatGreater(r.sourceWidth, Rat(f.W, 1))
       /\ ~RatGreater(r.sourceHeight, Rat(f.H, 1))
       /\ IF f.W * f.h > f.w * f.H
            THEN /\ r.sourceY = Rat(0, 1)
                 /\ r.sourceHeight = Rat(f.H, 1)
                 /\ RatAdd(RatAdd(r.sourceX, r.sourceX), r.sourceWidth) = Rat(f.W, 1)
            ELSE /\ r.sourceX = Rat(0, 1)
                 /\ r.sourceWidth = Rat(f.W, 1)
                 /\ RatAdd(RatAdd(r.sourceY, r.sourceY), r.sourceHeight) = Rat(f.H, 1)

\* C20 happens: a 1920 x 1080 frame shown in a 412 x 915 portrait box was
\* cropped at both sides and drawn on a canvas of the minimum width.
C20_Witness ==
  /\ crop.done
  /\ crop.frame = [W |-> 1920, H |-> 1080, w |-> 412, h |-> 915]
  /\ RatGreater(crop.rect.sourceX, Rat(0, 1))
  /\ crop.rect.sourceY = Rat(0, 1)
  /\ crop.canvas.width = MinOutputWidth

\* C26 as stated: a capture requested while the video reports zero
\* dimensions fails with the not-ready error and starts no encode, even if
\* the session is marked open.
C26_ZeroDimensionsCaptureFails ==
  [][((\E hasContext \in BOOLEAN : handlePhotoCapture(hasContext))
       /\ isOpen /\ VideoHasNoFrame) =>
       /\ lastOp'.name = "capture.rejected"
       /\ encodes' = encodes]_vars

\* The five acquisition failure kinds that are to be told apart.
FailureKinds ==
  {"NotAllowedError", "NotFoundError", "NotReadableError",
   "OverconstrainedError", "SecurityError"}

\* A startCamera call of CameraPanel just failed with the error of its last
\* getUserMedia request.
PanelOpenFailedWithKind ==
  /\ comp = "CameraPanel" /\ mounted
  /\ lastOp.name = "open.rejected"
  /\ lastOp.arg.err \in FailureKinds

\* C22 as stated: the message CameraPanel shows for a failed open tells the
\* five failure kinds apart: no other kind would have produced it.
C22_FailureKindsDistinct ==
  PanelOpenFailedWithKind =>
    \A kind \in FailureKinds :
      PanelErrorKey(kind) = error => kind = lastOp.arg.err

\* getUserMedia granted the stream of the open that took the last step.
StreamGranted ==
  /\ lastOp.name \in {"open.acquired", "open.rejected"}
  /\ lastOp.arg.stream # 0

\* C23 as stated: after getUserMedia granted a stream, the session holds it
\* and is ready or active, or on its way there: attached to the video
\* element, with the open waiting for the readiness signal.
C23_SuccessPathReachable ==
  (StreamGranted /\ mounted) =>
    /\ streamRef = lastOp.arg.stream
    /\ \/ state = "ready" \/ isActive \/ isOpen
       \/ /\ videoSrc = lastOp.arg.stream
          /\ \E call \in Calls : call.pc = "wait" /\ call.stream = lastOp.arg.stream

\* The timer of an open whose promise was settled by loadedmetadata fires.
SettledTimerFires == \E call \in Calls : call.pc = "settled" /\ OpenTimeout(call)

AllRejected ==
  /\ lastOp.name = "open.rejected"
  /\ lastOp.arg.answers # <<>>
  /\ \A i \in DOMAIN lastOp.arg.answers : lastOp.arg.answers[i] # "ok"

\* C25 as stated: an open whose every request was rejected fails with the
\* error of its last request, the error's name preserved.
C25_LastFailurePropagated ==
  AllRejected => lastOp.arg.err = lastOp.arg.answers[Len(lastOp.arg.answers)]


\* The flow holds a captured photo: step 'captured', 'processing' or 'playing'.
PhotoHeld == comp = "useCamera" /\ mounted /\ step \in {"captured", "processing", "playing"}

\* C27 (useCameraVoiceFlow): after a successful capturePhoto the camera is
\* released and stays released while the step is 'captured', 'processing' or
\* 'playing': no track is live, the stream reference is empty and isOpen is false.
C27_CameraReleasedAfterCapture ==
  PhotoHeld => live = {} /\ streamRef = 0 /\ ~isOpen


\* A processPhotoWithFilename call for blob b is in flight.
Processing(b) == \E call \in BagToSet(uploads) : call.blob = b

\* The call for blob b has just returned and left the flow reset: step 'idle',
\* no photo, no file name, and the camera session closed.
ProcessEnded(b) ==
  /\ lastOp.name = "process.done"
  /\ lastOp.arg.blob = b
  /\ mounted => /\ step = "idle" /\ photoBlob = 0 /\ fileName = ""
                /\ ~isOpen /\ streamRef = 0 /\ videoSrc = 0

\* C28 (useCameraVoiceFlow.processPhotoWithFilename): provided each awaited
\* operation completes, every call eventually returns, and at its return the
\* step is 'idle', photoBlob is null, fileName is '' and the camera is closed,
\* whichever path it took.
C28_ProcessAlwaysEndsReset ==
  \A b \in 1..MaxBlobs : Processing(b) ~> ProcessEnded(b)

\* A call that went through audio playback has returned with the flow reset.
C28_Witness ==
  /\ mounted
  /\ lastOp.name = "process.done"
  /\ lastOp.arg.outcome = "played"
  /\ step = "idle" /\ photoBlob = 0 /\ fileName = "" /\ ~isOpen /\ streamRef = 0


AnsweredWithAudio ==
  \E call \in BagToSet(uploads) : \E resp \in Responses :
    /\ resp.ok /\ resp.json /\ resp.body = "object" /\ resp.audio
    /\ UploadAnswered(call, resp)
    /\ lastOp'.arg.resp = resp

\* C30 (useCameraVoiceFlow.processPhotoWithFilename): a 2xx JSON response
\* with a non-empty audioResponse makes the flow enter step 'playing' and
\* await the playback before it resets, with or without a textResponse.
C30_AudioAlwaysPlayed ==
  [][AnsweredWithAudio /\ mounted =>
       /\ lastOp'.name = "process.playing"
       /\ step' = "playing"]_vars


\* The audioResponse already is a data URI or a blob URI.
IsAudioUri(a) == StartsWith(a, "data:audio/") \/ StartsWith(a, "blob:")

\* C31 (processPhotoWithFilename, playAudioResponse): for an audioResponse
\* that starts with 'data:audio/' or 'blob:', the audio URL of the assistant
\* message and the URL handed to playback are both the audioResponse
\* unchanged; any other audioResponse is taken as base64 audio/mpeg.
C31_AudioUriLeftUnchanged ==
  audio.stage = "played" =>
    IF IsAudioUri(audio.audioResponse)
      THEN /\ audio.messageUrl = audio.audioResponse
           /\ audio.playback = [kind |-> "url", url |-> audio.audioResponse]
      ELSE /\ audio.messageUrl = MessageAudioUrl(audio.audioResponse)
           /\ audio.playback.kind = "objectUrl" =>
                /\ audio.playback.type = "audio/mpeg"
                /\ audio.playback.bytes = Atob(audio.audioResponse)


\* C32 (useCamera.capture): for orientation 90 and for 270 or -90 the canvas
\* swaps the axes (width min(videoHeight, 1920), height min(videoWidth, 1080))
\* and the context is rotated by -90 and +90 degrees; for 0 and 180 the canvas
\* keeps the axes (width min(videoWidth, 1080), height min(videoHeight, 1920))
\* with rotation 0 and 180; for any other angle nothing is rotated.
C32_OrientationAwareCanvas ==
  shot.done =>
    LET c == shot.canvas
        swapped == /\ c.canvasWidth = Min(shot.videoHeight, 1920)
                   /\ c.canvasHeight = Min(shot.videoWidth, 1080)
        kept == /\ c.canvasWidth = Min(shot.videoWidth, 1080)
                /\ c.canvasHeight = Min(shot.videoHeight, 1920)
    IN /\ shot.orientation = 90 => swapped /\ c.rotation = -90
       /\ shot.orientation \in {270, -90} => swapped /\ c.rotation = 90
       /\ shot.orientation = 0 => kept /\ c.rotation = 0
       /\ shot.orientation = 180 => kept /\ c.rotation = 180
       /\ shot.orientation \notin {0, 90, 180, 270, -90} => c.rotation = 0

\* C32 happens: a 3840 x 2160 frame captured at 270 degrees went on a
\* 1920 x 1080 canvas turned by +90 degrees.
C32_Witness ==
  /\ shot.done
  /\ shot.orientation = 270 /\ shot.videoWidth = 3840 /\ shot.videoHeight = 2160
  /\ shot.canvas = [canvasWidth |-> 1920, canvasHeight |-> 1080, rotation |-> 90]


\* startCamera is called while the state is 'opening' or 'ready'.
StartWhileBusy ==
  /\ comp = "CameraPanel" /\ state \in {"opening", "ready"}
  /\ PanelStartCamera

RatNonNegative(a) == a.n >= 0

\* C35 (useModernCamera.capturePhoto): the source rectangle lies inside the
\* native frame: sourceX >= 0, sourceY >= 0, sourceWidth > 0,
\* sourceHeight > 0, sourceX + sourceWidth <= W, sourceY + sourceHeight <= H.
C35_CropInsideFrame ==
  crop.done =>
    LET f == crop.frame
        r == crop.rect
    IN /\ RatNonNegative(r.sourceX)
       /\ RatNonNegative(r.sourceY)
       /\ RatGreater(r.sourceWidth, Rat(0, 1))
       /\ RatGreater(r.sourceHeight, Rat(0, 1))
       /\ ~RatGreater(RatAdd(r.sourceX, r.sourceWidth), Rat(f.W, 1))
       /\ ~RatGreater(RatAdd(r.sourceY, r.sourceHeight), Rat(f.H, 1))

\* C35 happens: a 640 x 480 frame shown in a 1280 x 270 box was cropped at
\* the top and at the bottom, and the rectangle ends inside the frame.
C35_Witness ==
  /\ crop.done
  /\ crop.frame = [W |-> 640, H |-> 480, w |-> 1280, h |-> 270]
  /\ RatGreater(crop.rect.sourceY, Rat(0, 1))
  /\ RatGreater(Rat(480, 1), RatAdd(crop.rect.sourceY, crop.rect.sourceHeight))


\* The form was submitted (not cancelled).
Submitted == form.stage = "done" /\ form.called.handler # "onCancel"

\* The typed text is empty or white space only.
Blank(t) == \A i \in 1..Len(t) : IsSpace(t[i])

\* C36 (FilenameInput.handleSubmit): onSubmit is called only with a
\* non-empty file name without leading or trailing white space, the trimmed
\* text; submitting an empty or blank text calls neither onSubmit nor
\* onCancel.
C36_OnlyTrimmedNamesSubmitted ==
  Submitted =>
    IF Blank(form.text)
      THEN form.called.handler = "none"
      ELSE /\ form.called.handler = "onSubmit"
           /\ LET name == form.called.fileName
              IN /\ name # <<>>
                 /\ ~IsSpace(name[1]) /\ ~IsSpace(name[Len(name)])
                 /\ \E i, j \in 1..Len(form.text) :
                      /\ name = SubSeq(form.text, i, j)
                      /\ Blank(SubSeq(form.text, 1, i - 1))
                      /\ Blank(SubSeq(form.text, j + 1, Len(form.text)))

\* C36 happens: the text " a" followed by a tab was submitted, and onSubmit
\* got "a".
C36_Witness ==
  /\ form.stage = "done"
  /\ form.text = <<" ", "a", "\t">>
  /\ form.called = [handler |-> "onSubmit", fileName |-> <<"a">>]


\* caches.match answers the request the worker intercepted.
MatchAnswers == handling.pc = "match" /\ handling'.pc # "match"

\* C37 (sw.js, fetch listener): cache first: when a cache holds a response
\* for an intercepted request, the worker answers with it and fetches
\* nothing from the network; the network is asked on a cache miss only.
C37_CacheFirst ==
  [][MatchAnswers =>
       IF Cached(RequestUrl(handling.request))
         THEN /\ handling'.pc = "done"
              /\ handling'.answer = "cache"
              /\ handling'.fetches = 0
         ELSE /\ handling'.pc = "network"
              /\ handling'.fetches = 1]_vars

\* C37 happens: the navigation to '/' was answered from the cache without a
\* network fetch.
C37_Witness ==
  /\ handling.pc = "done"
  /\ handling.intercepted
  /\ handling.request.path = "/"
  /\ handling.answer = "cache"
  /\ handling.fetches = 0

\* C38 as stated (sw.js, guards of the fetch listener): the worker calls
\* respondWith only for GET requests to its own origin.
C38_OnlySameOriginGetIntercepted ==
  handling.pc # "none" /\ handling.intercepted =>
    /\ handling.request.method = "GET"
    /\ handling.request.origin = SelfOrigin

\* The activate handler has been entered and has not completed.
Activating == worker.state \in {"installed", "activating"}

\* C39 (sw.js, activate listener): when the handler completes, every cache
\* whose name differs from CACHE_NAME is gone, for every set of caches it
\* found, and the handler leaves the cache CACHE_NAME as it was.
C39_ActivateDeletesOldCaches ==
  /\ [](worker.state = "activated" => DOMAIN cacheStorage \subseteq {CACHE_NAME})
  /\ [][Activating /\ CACHE_NAME \in DOMAIN cacheStorage =>
          /\ CACHE_NAME \in DOMAIN cacheStorage'
          /\ cacheStorage'[CACHE_NAME] = cacheStorage[CACHE_NAME]]_vars

\* C39 happens: the handler found all three caches and completed, and only
\* CACHE_NAME is left, holding the static URLs.
C39_Witness ==
  /\ worker.state = "activated"
  /\ worker.events = 0
  /\ worker.cacheNames = CacheNames
  /\ DOMAIN cacheStorage = {CACHE_NAME}
  /\ RootUrl \in cacheStorage[CACHE_NAME]
=============================================================================
